---- MODULE Spec2Model ----
(***************************************************************************)
(* Model of the UL Solutions demo-data notebooks:                          *)
(*   02_generate_structured_data.py  facilities, equipment inventory,      *)
(*                                   work orders, manufacturer contracts   *)
(*   00_setup_generate_pdfs.py       certification documents               *)
(*                                                                         *)
(* Python values are modelled as follows.                                  *)
(*   date            proleptic Gregorian ordinal (date.toordinal())        *)
(*   datetime        minutes since ordinal 0, midnight                     *)
(*   str(date)       the ISO string "YYYY-MM-DD", built by IsoDate         *)
(*   round(x, 1)     an integer number of tenths                           *)
(*   round(x, 2)     an integer number of hundredths                       *)
(*   None            <<>> ; any other optional value v is <<v>>            *)
(*   random          a seeded generator state (rng) in the seeded          *)
(*                   specification, a free choice (\E) in the others       *)
(***************************************************************************)
EXTENDS Integers, Sequences, FiniteSets, TLC

\* ------------------------------------------------------------------ bounds
\* The seeded specification runs the notebook from the seeds
\* ProgramSeed .. ProgramSeed + ExtraSeeds, MaxRuns times each.
ExtraSeeds == 2
MaxRuns == 2
\* Loop counts of the free-choice specifications (the notebook's own counts,
\* InventoryCount and WorkOrderCount, are used by the seeded specification).
NumAssets == 2
NumWorkOrders == 2
NumContracts == 2
\* Loop count of the document batch in its free-choice specification.
NumDocs == 2
\* The generator states notebook 00 is started from, and the outputs a changed
\* draw of the twin batch reads.
MaxEntropy == 7
MaxForced == 4

\* ------------------------------------------------------- program constants
ProgramSeed == 42
InventoryCount == 120
WorkOrderCount == 500

\* ------------------------------------------------------------- Python values
None == <<>>
Some(v) == <<v>>

RECURSIVE ZeroPad(_, _)
\* f"{n:0{w}d}": at least w digits, never truncated.
ZeroPad(s, w) == IF Len(s) >= w THEN s ELSE ZeroPad("0" \o s, w)

Fmt(n, w) == ZeroPad(ToString(n), w)

IsLeap(y) == y % 4 = 0 /\ (y % 100 # 0 \/ y % 400 = 0)

DaysInMonth(y, m) ==
  IF m = 2 THEN (IF IsLeap(y) THEN 29 ELSE 28)
  ELSE IF m \in {4, 6, 9, 11} THEN 30 ELSE 31

DaysBeforeYear(y) ==
  LET p == y - 1 IN p * 365 + (p \div 4) - (p \div 100) + (p \div 400)

RECURSIVE DaysBeforeMonth(_, _)
DaysBeforeMonth(y, m) ==
  IF m = 1 THEN 0 ELSE DaysBeforeMonth(y, m - 1) + DaysInMonth(y, m - 1)

\* date(y, m, d) as an ordinal
Date(y, m, d) == DaysBeforeYear(y) + DaysBeforeMonth(y, m) + d

\* The year, month and day of an ordinal.
YearOf(n) ==
  CHOOSE y \in (n \div 366) .. ((n \div 365) + 1) :
    DaysBeforeYear(y) < n /\ n <= DaysBeforeYear(y + 1)

MonthOf(n) ==
  LET y == YearOf(n)
      r == n - DaysBeforeYear(y)
  IN CHOOSE m \in 1..12 :
       DaysBeforeMonth(y, m) < r /\ r <= DaysBeforeMonth(y, m) + DaysInMonth(y, m)

DayOf(n) ==
  LET y == YearOf(n) IN n - DaysBeforeYear(y) - DaysBeforeMonth(y, MonthOf(n))

\* str(date)
IsoDate(n) ==
  Fmt(YearOf(n), 4) \o "-" \o Fmt(MonthOf(n), 2) \o "-" \o Fmt(DayOf(n), 2)

MinutesPerDay == 24 * 60

\* datetime(y, m, d) + timedelta(days, hours, minutes)
DateTimePlus(ord, days, hours, minutes) ==
  (ord + days) * MinutesPerDay + hours * 60 + minutes

\* datetime.date()
DatePart(dt) == dt \div MinutesPerDay

\* str(datetime) for a datetime with zero seconds and microseconds
IsoDateTime(dt) ==
  LET r == dt % MinutesPerDay
  IN IsoDate(DatePart(dt)) \o " " \o Fmt(r \div 60, 2) \o ":" \o Fmt(r % 60, 2) \o ":00"

\* ------------------------------------------------------ the random module
\* random.seed(s) followed by successive draws is a deterministic stream: a
\* generator state and a step function.  (The step is a small linear
\* congruential generator standing for the library's generator.)
NextRand(s) == (s * 75 + 74) % 65537

\* random.randint(lo, hi) / a rounded random.uniform(lo, hi) in scaled units,
\* read off a generator state
RandInt(s, lo, hi) == lo + (s % (hi - lo + 1))

\* random.choice(seq): an index of seq
RandIndex(s, n) == 1 + (s % n)

RECURSIVE SumTo(_, _)
SumTo(w, k) == IF k = 0 THEN 0 ELSE w[k] + SumTo(w, k - 1)

\* random.choices(population, weights=w)[0] as an index: the first k whose
\* cumulative weight exceeds the point r drawn in 0 .. total-1
WeightedIndex(w, r) ==
  CHOOSE k \in 1..Len(w) : SumTo(w, k - 1) <= r /\ r < SumTo(w, k)

\* the indices random.choices can return: those of positive weight
WeightedChoices(w) == { k \in 1..Len(w) : w[k] > 0 }

RandWeighted(s, w) == WeightedIndex(w, s % SumTo(w, Len(w)))

\* ------------------------------------------- 02: shared reference data
MANUFACTURERS == <<
  "Siemens Industrial Systems", "ABB Power Solutions", "Schneider Electric",
  "Eaton Corporation", "Rockwell Automation", "Honeywell Process Solutions",
  "Emerson Electric", "GE Industrial", "Mitsubishi Electric", "Yokogawa Electric" >>

EQUIPMENT_TYPES == <<
  <<"Industrial Motor Controller", "IMC">>,
  <<"Power Distribution Unit", "PDU">>,
  <<"Programmable Logic Controller", "PLC">>,
  <<"Variable Frequency Drive", "VFD">>,
  <<"Circuit Breaker Assembly", "CBA">>,
  <<"Transformer Unit", "TRU">>,
  <<"Motor Starter Panel", "MSP">>,
  <<"Switchgear Assembly", "SGA">>,
  <<"Uninterruptible Power Supply", "UPS">>,
  <<"Industrial Relay Module", "IRM">> >>

VOLTAGES == <<"120V AC", "240V AC", "480V AC", "24V DC", "48V DC", "600V AC">>
IP_RATINGS == <<"IP20", "IP44", "IP54", "IP55", "IP65", "IP66", "IP67">>

\* a mutation of Facility: every row carries the first facility's id
FacilitySharedId(id, name, city, st, country, region, type, sqft, emp, opened) ==
  [facility_id |-> "FAC-001", facility_name |-> name, city |-> city,
   state_province |-> st, country |-> country, region |-> region,
   facility_type |-> type, square_footage |-> sqft, employee_count |-> emp,
   opened_date |-> opened]

\* ------------------------------------------------------ 02: facilities
Facility(id, name, city, st, country, region, type, sqft, emp, opened) ==
  [facility_id |-> id, facility_name |-> name, city |-> city,
   state_province |-> st, country |-> country, region |-> region,
   facility_type |-> type, square_footage |-> sqft, employee_count |-> emp,
   opened_date |-> opened]

facilities_data == <<
  Facility("FAC-001", "Chicago Manufacturing Complex", "Chicago", "IL", "United States", "North America", "Manufacturing Plant", 285000, 1420, "1998-03-15"),
  Facility("FAC-002", "Houston Energy Center", "Houston", "TX", "United States", "North America", "Manufacturing Plant", 342000, 1850, "2002-07-22"),
  Facility("FAC-003", "Detroit Automation Hub", "Detroit", "MI", "United States", "North America", "Manufacturing Plant", 198000, 980, "2005-11-01"),
  Facility("FAC-004", "Charlotte Distribution Center", "Charlotte", "NC", "United States", "North America", "Distribution Center", 156000, 420, "2010-04-18"),
  Facility("FAC-005", "San Jose R&D Laboratory", "San Jose", "CA", "United States", "North America", "R&D Laboratory", 78000, 310, "2012-09-30"),
  Facility("FAC-006", "Toronto Systems Integration", "Toronto", "ON", "Canada", "North America", "Manufacturing Plant", 165000, 720, "2008-01-10"),
  Facility("FAC-007", "Monterrey Assembly Plant", "Monterrey", "NL", "Mexico", "North America", "Manufacturing Plant", 210000, 1100, "2015-06-25"),
  Facility("FAC-008", "Frankfurt European Operations", "Frankfurt", "HE", "Germany", "EMEA", "Manufacturing Plant", 230000, 1280, "2001-08-14") >>

\* ------------------------------------------------ 02: equipment inventory
MODEL_LETTERS == <<"A", "B", "C", "D", "E", "F", "G", "H">>

\* generate_model_number(prefix), with its three draws given
generate_model_number(prefix, num, letter, digit) ==
  prefix \o "-" \o ToString(num) \o "-" \o MODEL_LETTERS[letter] \o ToString(digit)

\* "".join(w[0] for w in manufacturer.split()[:2]).upper() for each manufacturer
MFR_CODES == <<"SI", "AP", "SE", "EC", "RA", "HP", "EE", "GI", "ME", "YE">>

\* generate_serial(manufacturer, idx), with its draw given
generate_serial(mfr, year, idx) ==
  MFR_CODES[mfr] \o "-" \o ToString(year) \o "-" \o Fmt(idx, 6)

\* facility_ids = [f[0] for f in facilities_data]
facility_ids == [k \in 1..Len(facilities_data) |-> facilities_data[k].facility_id]

facility_weights ==
  [f \in {"FAC-001", "FAC-002", "FAC-003", "FAC-004",
          "FAC-005", "FAC-006", "FAC-007", "FAC-008"} |->
     CASE f = "FAC-001" -> 20 [] f = "FAC-002" -> 24 [] f = "FAC-003" -> 14
       [] f = "FAC-004" -> 8  [] f = "FAC-005" -> 5  [] f = "FAC-006" -> 10
       [] f = "FAC-007" -> 15 [] f = "FAC-008" -> 18]

\* weights=[facility_weights[f] for f in facility_ids]
FacilityWeightList == [k \in 1..Len(facility_ids) |-> facility_weights[facility_ids[k]]]

INSTALL_LOCATIONS == <<
  "Production Line 1", "Production Line 2", "Production Line 3",
  "Assembly Area A", "Assembly Area B", "Utility Room",
  "Control Room", "Shipping Dock", "Quality Lab",
  "Motor Control Center", "Substation", "Roof Mechanical",
  "Maintenance Shop", "Boiler Room", "Compressor Room" >>

OPERATIONAL_STATUSES == <<"Active", "Active", "Active", "Active", "Active",
                          "Under Maintenance", "Standby", "Decommissioned">>

WARRANTY_YEARS == <<1, 2, 3, 5>>
INSPECTION_INTERVALS == <<90, 180, 365>>

\* the reference "today" of the inventory and contract cells
Today == Date(2026, 2, 17)
PurchaseEpoch == Date(2018, 1, 1)

\* bounds of the purchase_date and last_inspection offsets (days)
PurchaseMaxOffset == 2800
InspectionMinOffset == 30

\* a mutation of LastInspectionMax: the bound is not capped at today
LastInspectionMaxUncapped(purchase_date) == PurchaseMaxOffset

\* the upper bound of the last-inspection draw for a purchase date
LastInspectionMax(purchase_date) ==
  IF PurchaseMaxOffset < Today - purchase_date
  THEN PurchaseMaxOffset ELSE Today - purchase_date

\* a mutation of base_prices: one equipment prefix has no entry
base_prices_without_IRM ==
  [p \in {"TRU", "SGA", "PDU", "VFD", "PLC", "UPS", "CBA", "IMC", "MSP"} |->
     CASE p = "TRU" -> <<18000, 85000>> [] p = "SGA" -> <<25000, 120000>>
       [] p = "PDU" -> <<8000, 35000>>  [] p = "VFD" -> <<3000, 22000>>
       [] p = "PLC" -> <<2000, 15000>>  [] p = "UPS" -> <<5000, 40000>>
       [] p = "CBA" -> <<1500, 12000>>  [] p = "IMC" -> <<2500, 18000>>
       [] p = "MSP" -> <<4000, 25000>>]

\* base_prices, in dollars
base_prices ==
  [p \in {"TRU", "SGA", "PDU", "VFD", "PLC", "UPS", "CBA", "IMC", "MSP", "IRM"} |->
     CASE p = "TRU" -> <<18000, 85000>> [] p = "SGA" -> <<25000, 120000>>
       [] p = "PDU" -> <<8000, 35000>>  [] p = "VFD" -> <<3000, 22000>>
       [] p = "PLC" -> <<2000, 15000>>  [] p = "UPS" -> <<5000, 40000>>
       [] p = "CBA" -> <<1500, 12000>>  [] p = "IMC" -> <<2500, 18000>>
       [] p = "MSP" -> <<4000, 25000>>  [] p = "IRM" -> <<800, 6000>>]

\* base_prices.get(eq_prefix, (2000, 20000)), in cents
PriceRange(prefix) ==
  LET r == IF prefix \in DOMAIN base_prices THEN base_prices[prefix] ELSE <<2000, 20000>>
  IN <<r[1] * 100, r[2] * 100>>

\* a mutation of AssetId: the loop index formatted without the + 1
AssetIdFromZero(i) == "AST-" \o Fmt(i, 6)

\* f"AST-{i+1:06d}" for loop index i
AssetId(i) == "AST-" \o Fmt(i + 1, 6)

\* a mutation of FacilityDraw: the id formatted from a number one too high
\* instead of taken from facility_ids
FacilityDrawFormatted(k) == "FAC-" \o Fmt(k + 1, 3)

\* random.choices(facility_ids, weights=...)[0] for the index k drawn
FacilityDraw(k) == facility_ids[k]

\* One iteration of the inventory loop for index i with the draws d:
\* the tuple appended to inventory_rows, by column name.
InventoryRow(i, d) ==
  LET eq_type_name    == EQUIPMENT_TYPES[d.eq][1]
      eq_prefix       == EQUIPMENT_TYPES[d.eq][2]
      manufacturer    == MANUFACTURERS[d.mfr]
      model           == generate_model_number(eq_prefix, d.model_num, d.model_letter, d.model_digit)
      fac_id          == FacilityDraw(d.fac)
      purchase_date   == PurchaseEpoch + d.purchase_off
      warranty_exp    == purchase_date + d.warranty_years * 365
      last_inspection == purchase_date + d.last_off
      next_inspection == last_inspection + d.next_off
  IN [asset_id             |-> AssetId(i),
      model_number         |-> model,
      equipment_type       |-> eq_type_name,
      equipment_type_code  |-> eq_prefix,
      manufacturer         |-> manufacturer,
      facility_id          |-> fac_id,
      serial_number        |-> generate_serial(d.mfr, d.serial_year, i + 1),
      purchase_date        |-> IsoDate(purchase_date),
      purchase_price_usd   |-> d.price,
      warranty_expiration  |-> IsoDate(warranty_exp),
      operational_status   |-> OPERATIONAL_STATUSES[d.op],
      voltage_rating       |-> VOLTAGES[d.voltage],
      ip_rating            |-> IP_RATINGS[d.ip],
      last_inspection_date |-> IsoDate(last_inspection),
      next_inspection_due  |-> IsoDate(next_inspection),
      install_location     |-> INSTALL_LOCATIONS[d.loc]]

\* The draws of one inventory iteration read off the stream from state s0,
\* in the order the loop body makes them, and the state they leave.
SeededInventoryDraws(s0) ==
  LET s1  == NextRand(s0)    \* random.choice(EQUIPMENT_TYPES)
      s2  == NextRand(s1)    \* random.choice(MANUFACTURERS)
      s3  == NextRand(s2)    \* randint(1000, 9999)
      s4  == NextRand(s3)    \* choice('ABCDEFGH')
      s5  == NextRand(s4)    \* randint(1, 9)
      s6  == NextRand(s5)    \* random.choices(facility_ids, weights)
      s7  == NextRand(s6)    \* randint(0, 2800)
      s8  == NextRand(s7)    \* choice([1, 2, 3, 5])
      s9  == NextRand(s8)    \* randint(30, min(...))
      s10 == NextRand(s9)    \* choice([90, 180, 365])
      s11 == NextRand(s10)   \* uniform(*price_range)
      s12 == NextRand(s11)   \* choice(VOLTAGES)
      s13 == NextRand(s12)   \* choice(IP_RATINGS)
      s14 == NextRand(s13)   \* choice(OPERATIONAL_STATUSES)
      s15 == NextRand(s14)   \* generate_serial: randint(2020, 2026)
      s16 == NextRand(s15)   \* choice(INSTALL_LOCATIONS)
      eq  == RandIndex(s1, Len(EQUIPMENT_TYPES))
      off == RandInt(s7, 0, PurchaseMaxOffset)
      pr  == PriceRange(EQUIPMENT_TYPES[eq][2])
  IN [d |-> [eq |-> eq,
             mfr |-> RandIndex(s2, Len(MANUFACTURERS)),
             model_num |-> RandInt(s3, 1000, 9999),
             model_letter |-> RandIndex(s4, Len(MODEL_LETTERS)),
             model_digit |-> RandInt(s5, 1, 9),
             fac |-> RandWeighted(s6, FacilityWeightList),
             purchase_off |-> off,
             warranty_years |-> WARRANTY_YEARS[RandIndex(s8, Len(WARRANTY_YEARS))],
             last_off |-> RandInt(s9, InspectionMinOffset, LastInspectionMax(PurchaseEpoch + off)),
             next_off |-> INSPECTION_INTERVALS[RandIndex(s10, Len(INSPECTION_INTERVALS))],
             price |-> RandInt(s11, pr[1], pr[2]),
             voltage |-> RandIndex(s12, Len(VOLTAGES)),
             ip |-> RandIndex(s13, Len(IP_RATINGS)),
             op |-> RandIndex(s14, Len(OPERATIONAL_STATUSES)),
             serial_year |-> RandInt(s15, 2020, 2026),
             loc |-> RandIndex(s16, Len(INSTALL_LOCATIONS))],
      rng |-> s16]

\* ------------------------------------------------------- 02: work orders
WORK_ORDER_TYPES == <<
  "Preventive Maintenance", "Preventive Maintenance", "Preventive Maintenance",
  "Corrective Repair", "Corrective Repair",
  "Inspection", "Inspection",
  "Calibration",
  "Emergency Repair" >>

PRIORITIES == <<"Critical", "High", "High", "Medium", "Medium", "Medium", "Low", "Low">>

\* the list of the second priority draw, made for an Emergency Repair only
EMERGENCY_PRIORITIES == <<"Critical", "Critical", "High">>

WO_STATUSES == <<"Completed", "Completed", "Completed", "Completed",
                 "In Progress", "Open", "Cancelled">>

TECHNICIANS == <<
  "Mike Rodriguez", "Sarah Chen", "James Kowalski", "Lisa Patel",
  "Carlos Mendez", "Emily Thornton", "David Kim", "Amanda Foster",
  "Robert Okonkwo", "Jennifer Wu", "Thomas Schmidt", "Maria Gonzalez",
  "Kevin O'Brien", "Rachel Nakamura", "Antonio Rossi" >>

\* WORK_DESCRIPTIONS (dashes and the plus-minus sign written in ASCII)
WORK_DESCRIPTIONS ==
  [t \in {"Preventive Maintenance", "Corrective Repair", "Inspection",
          "Calibration", "Emergency Repair"} |->
     CASE t = "Preventive Maintenance" -> <<
            "Quarterly PM - lubrication, filter replacement, visual inspection of connections",
            "Annual preventive maintenance - full teardown, bearing inspection, torque checks",
            "Semi-annual PM - thermal scan, vibration analysis, firmware check",
            "Monthly PM - clean enclosure, check indicator lights, verify alarm functions",
            "Scheduled maintenance - replace cooling fans, clean heat sinks, test interlocks" >>
       [] t = "Corrective Repair" -> <<
            "Replaced failed contactor - intermittent tripping reported by operators",
            "Repaired communication module - Modbus timeout errors on SCADA",
            "Replaced blown fuse and inspected for root cause - overcurrent event logged",
            "Fixed overheating issue - replaced thermal paste and cleaned air vents",
            "Replaced damaged display panel - cracked during adjacent equipment installation" >>
       [] t = "Inspection" -> <<
            "Annual safety inspection per NFPA 70E - all clearances verified",
            "Quarterly thermographic inspection - no hot spots detected",
            "Pre-shutdown inspection - verified isolation points and lockout procedures",
            "Insurance compliance inspection - all labels and markings verified current" >>
       [] t = "Calibration" -> <<
            "Annual calibration of current transformers - within +/-0.5% tolerance",
            "Recalibrated analog outputs - drift detected during routine checks",
            "Temperature sensor calibration - 3-point verification against NIST standard" >>
       [] t = "Emergency Repair" -> <<
            "Emergency callout - unit tripped on ground fault, production line down",
            "Emergency repair - power supply failure causing cascading alarms",
            "Emergency response - smoke detected from enclosure, isolated and inspected" >>]

\* WORK_DESCRIPTIONS.get(wo_type, ["General maintenance activity"])
DescriptionsFor(wo_type) ==
  IF wo_type \in DOMAIN WORK_DESCRIPTIONS
  THEN WORK_DESCRIPTIONS[wo_type] ELSE <<"General maintenance activity">>

\* the types whose Completed orders draw a parts cost / a downtime
PARTS_COST_TYPES == {"Corrective Repair", "Emergency Repair", "Preventive Maintenance"}
DOWNTIME_TYPES == {"Corrective Repair", "Emergency Repair"}

WorkOrderEpoch == Date(2024, 1, 1)

\* f"WO-{i+1:06d}" for loop index i
WorkOrderId(i) == "WO-" \o Fmt(i + 1, 6)

\* a mutation of WorkOrderPriority: the first draw is kept for every type
WorkOrderPriorityFirstDraw(wo_type, d) == PRIORITIES[d.priority]

\* the priority of a work order: drawn from PRIORITIES, then drawn again from
\* the emergency list when the type is Emergency Repair
WorkOrderPriority(wo_type, d) ==
  LET priority == PRIORITIES[d.priority]
  IN IF wo_type = "Emergency Repair" THEN EMERGENCY_PRIORITIES[d.em_priority] ELSE priority

\* a mutation of WorkOrderScheduled: the date is taken after rounding the
\* time of day up to the next day
WorkOrderScheduledRoundedUp(wo_type, created, d) ==
  LET scheduled == DatePart(created + d.sched_off * MinutesPerDay + (MinutesPerDay - 1))
  IN IF wo_type = "Emergency Repair" THEN DatePart(created) ELSE scheduled

\* a mutation of WorkOrderScheduled: the drawn offset is kept for every type
WorkOrderScheduledOffset(wo_type, created, d) ==
  DatePart(created + d.sched_off * MinutesPerDay)

\* the scheduled date: created + the drawn offset, then the creation date
\* itself when the type is Emergency Repair
WorkOrderScheduled(wo_type, created, d) ==
  LET scheduled == DatePart(created + d.sched_off * MinutesPerDay)
  IN IF wo_type = "Emergency Repair" THEN DatePart(created) ELSE scheduled

\* a mutation of WorkOrderCosts: the three amounts start at 0.0 instead of None
WorkOrderCostsZeroDefault(wo_type, status, scheduled, d) ==
  IF status = "Completed"
  THEN [completed_date |-> Some(IsoDate(scheduled + d.comp_off)),
        labor_hours    |-> Some(d.labor),
        parts_cost     |-> Some(IF wo_type \in PARTS_COST_TYPES THEN d.parts ELSE 0),
        downtime_hours |-> Some(IF wo_type \in DOWNTIME_TYPES THEN d.downtime ELSE 0)]
  ELSE IF status = "In Progress"
  THEN [completed_date |-> None, labor_hours |-> Some(d.labor),
        parts_cost |-> None, downtime_hours |-> None]
  ELSE [completed_date |-> None, labor_hours |-> Some(0),
        parts_cost |-> Some(0), downtime_hours |-> Some(0)]

\* a mutation of WorkOrderCosts: an In Progress order is costed like a
\* Completed one, short of its completion date
WorkOrderCostsInProgressCosted(wo_type, status, scheduled, d) ==
  IF status \in {"Completed", "In Progress"}
  THEN [completed_date |-> IF status = "Completed"
                           THEN Some(IsoDate(scheduled + d.comp_off)) ELSE None,
        labor_hours    |-> Some(d.labor),
        parts_cost     |-> Some(IF wo_type \in PARTS_COST_TYPES THEN d.parts ELSE 0),
        downtime_hours |-> Some(IF wo_type \in DOWNTIME_TYPES THEN d.downtime ELSE 0)]
  ELSE [completed_date |-> None, labor_hours |-> None,
        parts_cost |-> None, downtime_hours |-> None]

\* completed_date, labor_hours, parts_cost and downtime_hours by status
WorkOrderCosts(wo_type, status, scheduled, d) ==
  IF status = "Completed"
  THEN [completed_date |-> Some(IsoDate(scheduled + d.comp_off)),
        labor_hours    |-> Some(d.labor),
        parts_cost     |-> Some(IF wo_type \in PARTS_COST_TYPES THEN d.parts ELSE 0),
        downtime_hours |-> Some(IF wo_type \in DOWNTIME_TYPES THEN d.downtime ELSE 0)]
  ELSE IF status = "In Progress"
  THEN [completed_date |-> None, labor_hours |-> Some(d.labor),
        parts_cost |-> None, downtime_hours |-> None]
  ELSE [completed_date |-> None, labor_hours |-> None,
        parts_cost |-> None, downtime_hours |-> None]

\* One iteration of the work-order loop for index i over the asset ids ids
\* with the draws d: the tuple appended to work_order_rows, by column name.
WorkOrderRow(i, ids, d) ==
  LET asset_id  == ids[d.asset]
      wo_type   == WORK_ORDER_TYPES[d.wo_type]
      priority  == WorkOrderPriority(wo_type, d)
      status    == WO_STATUSES[d.status]
      created   == DateTimePlus(WorkOrderEpoch, d.days, d.hours, d.minutes)
      scheduled == WorkOrderScheduled(wo_type, created, d)
      c         == WorkOrderCosts(wo_type, status, scheduled, d)
  IN [work_order_id   |-> WorkOrderId(i),
      asset_id        |-> asset_id,
      work_order_type |-> wo_type,
      priority        |-> priority,
      status          |-> status,
      created_at      |-> IsoDateTime(created),
      scheduled_date  |-> IsoDate(scheduled),
      completed_date  |-> c.completed_date,
      technician_name |-> TECHNICIANS[d.tech],
      description     |-> DescriptionsFor(wo_type)[d.desc],
      labor_hours     |-> c.labor_hours,
      parts_cost_usd  |-> c.parts_cost,
      downtime_hours  |-> c.downtime_hours]

\* The draws of one work-order iteration read off the stream from state s0 in
\* the order the loop body makes them (a draw inside a branch not taken is not
\* made and leaves the stream where it was), and the state they leave.
SeededWorkOrderDraws(s0, n_assets) ==
  LET s1  == NextRand(s0)                                \* choice(asset_ids)
      s2  == NextRand(s1)                                \* choice(WORK_ORDER_TYPES)
      s3  == NextRand(s2)                                \* choice(PRIORITIES)
      wo_type == WORK_ORDER_TYPES[RandIndex(s2, Len(WORK_ORDER_TYPES))]
      em  == wo_type = "Emergency Repair"
      s4  == IF em THEN NextRand(s3) ELSE s3             \* choice([Critical, Critical, High])
      s5  == NextRand(s4)                                \* choice(WO_STATUSES)
      status == WO_STATUSES[RandIndex(s5, Len(WO_STATUSES))]
      s6  == NextRand(s5)                                \* randint(0, 775)
      s7  == NextRand(s6)                                \* randint(6, 18)
      s8  == NextRand(s7)                                \* randint(0, 59)
      s9  == NextRand(s8)                                \* randint(0, 14)
      done == status = "Completed"
      s10 == IF done THEN NextRand(s9) ELSE s9           \* randint(0, 3)
      s11 == IF done \/ status = "In Progress" THEN NextRand(s10) ELSE s10   \* labor
      s12 == IF done /\ wo_type \in PARTS_COST_TYPES THEN NextRand(s11) ELSE s11
      s13 == IF done /\ wo_type \in DOWNTIME_TYPES THEN NextRand(s12) ELSE s12
      s14 == NextRand(s13)                               \* choice(descriptions)
      s15 == NextRand(s14)                               \* choice(TECHNICIANS)
  IN [d |-> [asset |-> RandIndex(s1, n_assets),
             wo_type |-> RandIndex(s2, Len(WORK_ORDER_TYPES)),
             priority |-> RandIndex(s3, Len(PRIORITIES)),
             em_priority |-> RandIndex(s4, Len(EMERGENCY_PRIORITIES)),
             status |-> RandIndex(s5, Len(WO_STATUSES)),
             days |-> RandInt(s6, 0, 775),
             hours |-> RandInt(s7, 6, 18),
             minutes |-> RandInt(s8, 0, 59),
             sched_off |-> RandInt(s9, 0, 14),
             comp_off |-> RandInt(s10, 0, 3),
             labor |-> IF done THEN RandInt(s11, 5, 160) ELSE RandInt(s11, 5, 40),
             parts |-> RandInt(s12, 0, 450000),
             downtime |-> RandInt(s13, 0, 80),
             desc |-> RandIndex(s14, Len(DescriptionsFor(wo_type))),
             tech |-> RandIndex(s15, Len(TECHNICIANS))],
      rng |-> s15]

\* ---------------------------------------------- 02: manufacturer contracts
CONTRACT_TYPES == <<"Service Agreement", "Parts Supply", "Extended Warranty">>
DURATION_YEARS == <<1, 2, 3, 5>>
SLA_HOURS == <<2, 4, 4, 8, 8, 24>>

first_names == <<"John", "Maria", "David", "Sarah", "Kenji", "Hans", "Priya", "Wei", "Carlos", "Anna">>
last_names == <<"Mueller", "Santos", "Park", "Williams", "Tanaka", "Fischer", "Sharma", "Chang", "Rodriguez", "Johansson">>

\* contact_name.lower().replace(' ', '.') for each index
CONTACT_LOCAL_PARTS == <<"john.mueller", "maria.santos", "david.park", "sarah.williams",
  "kenji.tanaka", "hans.fischer", "priya.sharma", "wei.chang", "carlos.rodriguez",
  "anna.johansson">>

\* manufacturer.lower().replace(" ", "").replace(".", "")[:12] for each manufacturer
MFR_DOMAINS == <<"siemensindus", "abbpowersolu", "schneiderele", "eatoncorpora",
  "rockwellauto", "honeywellpro", "emersonelect", "geindustrial", "mitsubishiel",
  "yokogawaelec">>

ContractEpoch == Date(2023, 1, 1)
ExpiringSoonDays == 90

\* a mutation of ContractStatus: both comparisons made inclusive
ContractStatusInclusive(end, today) ==
  IF end <= today THEN "Expired"
  ELSE IF end - today <= ExpiringSoonDays THEN "Expiring Soon"
  ELSE "Active"

\* the status derivation of the contracts loop
ContractStatus(end, today) ==
  IF end < today THEN "Expired"
  ELSE IF end - today < ExpiringSoonDays THEN "Expiring Soon"
  ELSE "Active"

\* a mutation of ContractManufacturer: the second half of the list repeats
\* the first
ContractManufacturerRepeated(i) == MANUFACTURERS[1 + (i % 5)]

\* the manufacturer of iteration i of "for i, manufacturer in
\* enumerate(MANUFACTURERS)"
ContractManufacturer(i) == MANUFACTURERS[i + 1]

\* One iteration of the contracts loop for index i (the i-th manufacturer,
\* from 0) with the draws d: the tuple appended to contracts_data.
ContractRow(i, d) ==
  LET manufacturer == ContractManufacturer(i)
      start        == ContractEpoch + d.start_off
      end          == start + DURATION_YEARS[d.duration] * 365
      status       == ContractStatus(end, Today)
      contact_name == first_names[i + 1] \o " " \o last_names[i + 1]
  IN [contract_id        |-> "CTR-" \o Fmt(i + 1, 4),
      manufacturer       |-> manufacturer,
      contract_type      |-> CONTRACT_TYPES[d.contract_type],
      start_date         |-> IsoDate(start),
      end_date           |-> IsoDate(end),
      annual_value_usd   |-> d.annual_value,
      sla_response_hours |-> SLA_HOURS[d.sla],
      contract_status    |-> status,
      primary_contact    |-> contact_name,
      contact_email      |-> CONTACT_LOCAL_PARTS[i + 1] \o "@" \o MFR_DOMAINS[i + 1] \o ".com"]

SeededContractDraws(s0) ==
  LET s1 == NextRand(s0)     \* choice(CONTRACT_TYPES)
      s2 == NextRand(s1)     \* randint(0, 365)
      s3 == NextRand(s2)     \* choice([1, 2, 3, 5])
      s4 == NextRand(s3)     \* uniform(25000, 350000)
      s5 == NextRand(s4)     \* choice([2, 4, 4, 8, 8, 24])
  IN [d |-> [contract_type |-> RandIndex(s1, Len(CONTRACT_TYPES)),
             start_off |-> RandInt(s2, 0, 365),
             duration |-> RandIndex(s3, Len(DURATION_YEARS)),
             annual_value |-> RandInt(s4, 2500000, 35000000),
             sla |-> RandIndex(s5, Len(SLA_HOURS))],
      rng |-> s5]

\* ------------------------------------------- 00: certification documents
\* str() of round(x, places), the rounded value given as an integer number
\* of 10^-places: trailing zeros of the fraction are dropped, one digit stays.
RECURSIVE FracDigits(_, _)
FracDigits(n, places) ==
  IF places > 1 /\ n % 10 = 0 THEN FracDigits(n \div 10, places - 1)
  ELSE Fmt(n, places)

FloatStr(n, places) ==
  ToString(n \div (10 ^ places)) \o "." \o FracDigits(n % (10 ^ places), places)

\* sub in s
Contains(s, sub) ==
  \E k \in 1..(Len(s) - Len(sub) + 1) : SubSeq(s, k, k + Len(sub) - 1) = sub

\* s.replace('-', '_')
RECURSIVE ReplaceDashes(_)
ReplaceDashes(s) ==
  IF Len(s) = 0 THEN ""
  ELSE (IF SubSeq(s, 1, 1) = "-" THEN "_" ELSE SubSeq(s, 1, 1))
       \o ReplaceDashes(SubSeq(s, 2, Len(s)))

DOC_MANUFACTURERS == <<
  "Siemens Industrial Systems", "ABB Power Solutions", "Schneider Electric",
  "Eaton Corporation", "Rockwell Automation", "Honeywell Process Solutions",
  "Emerson Electric", "GE Industrial", "Mitsubishi Electric", "Yokogawa Electric" >>

DOC_EQUIPMENT_TYPES == <<
  <<"Industrial Motor Controller", "IMC">>,
  <<"Power Distribution Unit", "PDU">>,
  <<"Programmable Logic Controller", "PLC">>,
  <<"Variable Frequency Drive", "VFD">>,
  <<"Circuit Breaker Assembly", "CBA">>,
  <<"Transformer Unit", "TRU">>,
  <<"Motor Starter Panel", "MSP">>,
  <<"Switchgear Assembly", "SGA">>,
  <<"Uninterruptible Power Supply", "UPS">>,
  <<"Industrial Relay Module", "IRM">> >>

DOC_IP_RATINGS == <<"IP20", "IP44", "IP54", "IP55", "IP65", "IP66", "IP67">>

\* the list of the voltage draw in generate_equipment_pdf
DOC_VOLTAGES == <<"120V AC", "240V AC", "480V AC", "24V DC", "48V DC", "600V AC">>

GDT_TOLERANCE_TYPES == <<
  "Flatness", "Straightness", "Circularity", "Cylindricity", "Position",
  "Concentricity", "Symmetry", "Parallelism", "Perpendicularity",
  "Angularity", "Total Runout", "Profile of Surface" >>

TEST_NAMES == <<
  "Dielectric Withstand Test", "Insulation Resistance Test",
  "Ground Continuity Test", "Short-Circuit Current Rating Test",
  "Temperature Rise Test", "Overload Protection Test",
  "Environmental Stress Screening", "Vibration Endurance Test",
  "Salt Spray Corrosion Test", "Humidity Resistance Test",
  "Thermal Shock Test", "EMC Immunity Test",
  "Arc Flash Hazard Test", "IP Enclosure Integrity Test" >>

\* a mutation of CERT_STATUSES: a third status in the population
CERT_STATUSES_WithFail == <<"PASS", "CONDITIONAL", "FAIL", "PASS">>

\* the population of the certification-status draw; its weights 6, 2, 1, 1
\* are all positive, so every entry can be drawn
CERT_STATUSES == <<"PASS", "CONDITIONAL", "PASS", "PASS">>

\* the population of the status draw of a GD&T row and of the result draw of
\* a test row; weights 9, 1
PASS_FAIL == <<"PASS", "FAIL">>

\* a mutation of random_model_number: the revision letter in lower case
random_model_number_lowercase(prefix, d) ==
  LET letters == <<"a", "b", "c", "d", "e", "f", "g", "h">>
  IN prefix \o "-" \o ToString(d.model_num) \o "-"
            \o letters[d.model_letter] \o ToString(d.model_digit)

random_model_number(prefix, d) ==
  LET letters == <<"A", "B", "C", "D", "E", "F", "G", "H">>
  IN prefix \o "-" \o ToString(d.model_num) \o "-"
            \o letters[d.model_letter] \o ToString(d.model_digit)

random_cert_id(d) ==
  "UL-" \o ToString(d.cert_year) \o "-" \o ToString(d.cert_serial)

\* a mutation of DocFilename: the model number is left out of the name
DocFilenameOfCertId(cert_id, model) ==
  "UL_Cert_" \o ReplaceDashes(cert_id) \o ".pdf"

DocFilename(cert_id, model) ==
  "UL_Cert_" \o ReplaceDashes(cert_id) \o "_" \o ReplaceDashes(model) \o ".pdf"

\* The measured value and the threshold of one test row: the dispatch on the
\* test name, in the order of the if/elif chain.  r.s is the generator value
\* the row's draws are read from.  In the texts ">=" and "<=" stand for the
\* comparison signs, "MOhm"/"Ohm" for the unit signs and "C" for degrees C.
TestMeasurement(test_name, r) ==
  IF Contains(test_name, "Dielectric") THEN
    << ToString(RandInt(r.s, 1800, 2500)) \o " VAC", ">= 1500 VAC" >>
  ELSE IF Contains(test_name, "Insulation") THEN
    << ToString(RandInt(r.s, 80, 500)) \o " MOhm", ">= 50 MOhm" >>
  ELSE IF Contains(test_name, "Ground") THEN
    << FloatStr(RandInt(r.s, 10, 150), 3) \o " Ohm", "<= 0.1 Ohm" >>
  ELSE IF Contains(test_name, "Temperature") THEN
    << ToString(RandInt(r.s, 35, 75)) \o "C rise",
       "<= " \o ToString(<<65, 70, 75>>[RandIndex(r.s, 3)]) \o "C rise" >>
  ELSE IF Contains(test_name, "Vibration") THEN
    << FloatStr(RandInt(r.s, 5, 50), 1) \o "g @ "
         \o ToString(RandInt(r.s, 10, 500)) \o " Hz",
       "<= " \o FloatStr(RandInt(r.s, 30, 100), 1) \o "g" >>
  ELSE IF Contains(test_name, "Salt") THEN
    << ToString(RandInt(r.s, 200, 1000)) \o " hours",
       ">= " \o ToString(<<200, 500, 720>>[RandIndex(r.s, 3)]) \o " hours" >>
  ELSE IF Contains(test_name, "Humidity") THEN
    << ToString(RandInt(r.s, 85, 98)) \o "% RH, "
         \o ToString(RandInt(r.s, 24, 168)) \o "h",
       "95% RH, 48h min" >>
  ELSE IF Contains(test_name, "Short-Circuit") THEN
    << ToString(RandInt(r.s, 10, 100)) \o " kA",
       ">= " \o ToString(<<10, 25, 50>>[RandIndex(r.s, 3)]) \o " kA" >>
  ELSE IF Contains(test_name, "Thermal Shock") THEN
    << "-" \o ToString(RandInt(r.s, 20, 40)) \o "C to +"
         \o ToString(RandInt(r.s, 60, 85)) \o "C",
       "-40C to +" \o ToString(<<70, 85>>[RandIndex(r.s, 2)]) \o "C" >>
  ELSE
    << FloatStr(RandInt(r.s, 10, 10000), 2) \o " units",
       "<= " \o FloatStr(RandInt(r.s, 500, 2000), 1) \o " units" >>

\* a mutation of TestRow: the test names are drawn with replacement
TestRowWithReplacement(r) ==
  << TEST_NAMES[1], TestMeasurement(TEST_NAMES[1], r)[1],
     TestMeasurement(TEST_NAMES[1], r)[2], PASS_FAIL[r.result] >>

\* one appended row of test_data: [test_name, measured, threshold, result]
TestRow(r) ==
  LET test_name == TEST_NAMES[r.name]
      mt == TestMeasurement(test_name, r)
  IN << test_name, mt[1], mt[2], PASS_FAIL[r.result] >>

TEST_HEADER == <<"Test Name", "Measured Value", "Threshold", "Result">>

\* test_data: the header row, then one row per selected test
TestData(tests) == <<TEST_HEADER>> \o [k \in 1..Len(tests) |-> TestRow(tests[k])]

\* gdt_data: the header row, then num_gdt rows; of the six columns the
\* tolerance type and the status are kept
GdtData(gdt) ==
  << <<"Tolerance Type", "Status">> >>
  \o [k \in 1..Len(gdt) |-> << GDT_TOLERANCE_TYPES[gdt[k].tol_type],
                               PASS_FAIL[gdt[k].status] >>]

\* a mutation of TotalTests: the header row is counted as a test
TotalTestsWithHeader(test_data) == Len(test_data)

\* total_tests = len(test_data) - 1
TotalTests(test_data) == Len(test_data) - 1

\* passed = sum(1 for row in test_data[1:] if row[3] == "PASS")
Passed(test_data) ==
  Cardinality({ k \in 2..Len(test_data) : test_data[k][4] = "PASS" })

\* round(passed / total_tests * 100, 1), in tenths of a percent (ties to even)
PassRate(passed, total_tests) ==
  LET q == (passed * 1000) \div total_tests
      rem == (passed * 1000) % total_tests
  IN IF 2 * rem > total_tests THEN q + 1
     ELSE IF 2 * rem = total_tests THEN q + (q % 2)
     ELSE q

\* The "6. Certification Summary" section: the counts paragraph, then the
\* narrative paragraph of the branch taken, None when neither is.
CertificationSummary(cert_status, test_data) ==
  LET total_tests == TotalTests(test_data)
      passed == Passed(test_data)
      failed == total_tests - passed
  IN [overall_status |-> cert_status,
      total_tests |-> total_tests,
      passed |-> passed,
      failed |-> failed,
      pass_rate |-> PassRate(passed, total_tests),
      narrative |-> IF cert_status = "PASS" THEN Some("certified")
                    ELSE IF cert_status = "CONDITIONAL"
                      THEN Some("conditional: " \o ToString(failed) \o " failed test(s)")
                    ELSE None]

\* generate_equipment_pdf(doc_index) with its draws d: the returned metadata
\* and the built document (pdf_bytes) with its tables and its summary.
generate_equipment_pdf(doc_index, d) ==
  LET eq_type_name == DOC_EQUIPMENT_TYPES[d.eq][1]
      eq_prefix == DOC_EQUIPMENT_TYPES[d.eq][2]
      manufacturer == DOC_MANUFACTURERS[d.mfr]
      model == random_model_number(eq_prefix, d)
      cert_id == random_cert_id(d)
      cert_status == CERT_STATUSES[d.cert_status]
      test_data == TestData(d.tests)
  IN [filename |-> DocFilename(cert_id, model),
      pdf_bytes |-> [general |-> [equipment_type |-> eq_type_name,
                                  model_number |-> model,
                                  manufacturer |-> manufacturer,
                                  certification_id |-> cert_id,
                                  certification_status |-> cert_status,
                                  ip_rating |-> DOC_IP_RATINGS[d.ip],
                                  voltage_rating |-> DOC_VOLTAGES[d.voltage]],
                     gdt_data |-> GdtData(d.gdt),
                     material_rows |-> d.num_mats,
                     test_data |-> test_data,
                     summary |-> CertificationSummary(cert_status, test_data)],
      equipment_name |-> eq_type_name,
      model_number |-> model,
      manufacturer |-> manufacturer,
      certification_id |-> cert_id,
      certification_status |-> cert_status]

\* ------------------------------- 00: the draws read off the generator
\* The notebook never calls random.seed and every document calls the one
\* module-level generator: each random.* call of generate_equipment_pdf reads
\* the generator's next output, in the order of the code (one output stands
\* for one call).  o[k] is the k-th output after the state s0; forced, if
\* any, names one draw and the output it reads instead.  The result: the
\* draws d, the number of outputs read and the generator's state after them.
ReadDocument(s0, forced) ==
  LET RECURSIVE Outputs(_, _)
      Outputs(s, n) ==
        IF n = 1 THEN <<NextRand(s)>>
        ELSE LET head == Outputs(s, n \div 2)
             IN head \o Outputs(head[Len(head)], n - (n \div 2))
      \* the header's 19 calls, the diagram's 4, then at most 10 GD&T rows of
      \* 5 calls, 6 material rows of 5 and 12 test rows of 4
      o == Outputs(s0, 23 + (1 + 5 * 10) + (1 + 5 * 6) + (2 + 4 * 12))
      Out(k, draw) == IF forced # None /\ forced[1].draw = draw THEN forced[1].to ELSE o[k]
      num_gdt == RandInt(Out(24, "num_gdt"), 6, 10)
      at_mats == 24 + 5 * num_gdt + 1
      num_mats == RandInt(Out(at_mats, "num_mats"), 3, 6)
      at_tests == at_mats + 5 * num_mats + 1
      num_tests == RandInt(Out(at_tests, "num_tests"), 7, 12)
      \* random.sample(TEST_NAMES, k): k distinct names, read off one output
      selected_tests == [k \in 1..num_tests |->
                           1 + ((o[at_tests + 1] + k - 1) % Len(TEST_NAMES))]
      \* the random.* calls of the branch a test name takes
      MeasurementCalls(test_name) ==
        IF Contains(test_name, "Dielectric") THEN 1
        ELSE IF Contains(test_name, "Insulation") THEN 1
        ELSE IF Contains(test_name, "Ground") THEN 1
        ELSE IF Contains(test_name, "Temperature") THEN 2
        ELSE IF Contains(test_name, "Vibration") THEN 3
        ELSE IF Contains(test_name, "Salt") THEN 2
        ELSE IF Contains(test_name, "Humidity") THEN 2
        ELSE IF Contains(test_name, "Short-Circuit") THEN 2
        ELSE IF Contains(test_name, "Thermal Shock") THEN 3
        ELSE 2
      \* the position of the last output the k-th test row reads: its result
      RECURSIVE RowEnd(_)
      RowEnd(k) == IF k = 0 THEN at_tests + 1
                   ELSE RowEnd(k - 1) + MeasurementCalls(TEST_NAMES[selected_tests[k]]) + 1
      read == RowEnd(num_tests)
  IN [d |-> [eq |-> RandIndex(o[1], Len(DOC_EQUIPMENT_TYPES)),
             mfr |-> RandIndex(Out(2, "manufacturer"), Len(DOC_MANUFACTURERS)),
             model_num |-> RandInt(o[3], 1000, 9999),
             model_letter |-> RandIndex(o[4], 8),
             model_digit |-> RandInt(o[5], 1, 9),
             cert_year |-> RandInt(o[6], 2024, 2026),
             cert_serial |-> RandInt(o[7], 100000, 999999),
             ip |-> RandIndex(o[10], Len(DOC_IP_RATINGS)),
             voltage |-> RandIndex(o[14], Len(DOC_VOLTAGES)),
             cert_status |-> RandWeighted(o[17], <<6, 2, 1, 1>>),
             gdt |-> [k \in 1..num_gdt |->
                        [tol_type |-> RandIndex(o[24 + 5 * (k - 1) + 1],
                                                Len(GDT_TOLERANCE_TYPES)),
                         status |-> RandWeighted(o[24 + 5 * (k - 1) + 2], <<9, 1>>)]],
             num_mats |-> num_mats,
             tests |-> [k \in 1..num_tests |->
                          [name |-> selected_tests[k],
                           s |-> o[RowEnd(k - 1) + 1],
                           result |-> RandWeighted(o[RowEnd(k)], <<9, 1>>)]]],
      read |-> read,
      rng |-> o[read]]

\* --------------------------------------------------- 03: agent bricks
KA_NAME == "UL_Solutions_Equipment_Docs"
MAS_NAME == "UL_Solutions_Equipment_Intelligence"
GENIE_SPACE_NAME == "UL Solutions Equipment Catalog"

\* the questions of MAS_EXAMPLES, each of which has a guideline
MAS_EXAMPLES == <<
  "What is the certification pass rate by equipment type?",
  "Why does the ABB Power Solutions Power Distribution Unit have a conditional certification?",
  "How many pieces of equipment are at the Chicago Manufacturing Complex?",
  "What are the GD&T tolerances for the mounting surfaces on model IMC-3456-B2?",
  "Which manufacturers have conditional certifications and what were the specific failures?" >>

\* a mutation of find_tile_by_name: the last listed tile of that name is returned
find_tile_last_match(platform_tiles, name, tile_type) ==
  LET listed == SelectSeq(platform_tiles,
                          LAMBDA t : t.tile_type = tile_type /\ Contains(t.name, name))
      exact == { k \in 1..Len(listed) : listed[k].name = name }
  IN IF exact = {} THEN None
     ELSE Some(listed[CHOOSE k \in exact : \A j \in exact : k >= j])

\* a mutation of find_tile_by_name: only the first listed tile is compared
find_tile_first_listed(platform_tiles, name, tile_type) ==
  LET listed == SelectSeq(platform_tiles,
                          LAMBDA t : t.tile_type = tile_type /\ Contains(t.name, name))
  IN IF listed # <<>> /\ listed[1].name = name THEN Some(listed[1]) ELSE None

\* find_ka_by_name (tile_type "KA") and find_mas_by_name (tile_type "MAS"):
\* the tiles API lists the tiles of the type whose name contains the name, and
\* the first listed tile whose name equals it is returned, None if there is none
find_tile_by_name(platform_tiles, name, tile_type) ==
  LET listed == SelectSeq(platform_tiles,
                          LAMBDA t : t.tile_type = tile_type /\ Contains(t.name, name))
      exact == { k \in 1..Len(listed) : listed[k].name = name }
  IN IF exact = {} THEN None
     ELSE Some(listed[CHOOSE k \in exact : \A j \in exact : k <= j])

\* a mutation of find_genie_space_by_name: a space whose display name
\* contains the name is taken
find_genie_space_containing(platform_spaces, display_name) ==
  LET close == { k \in 1..Len(platform_spaces) :
                   Contains(platform_spaces[k].display_name, display_name) }
  IN IF close = {} THEN None
     ELSE Some(platform_spaces[CHOOSE k \in close : \A j \in close : k <= j])

\* find_genie_space_by_name: the data-rooms API lists every space
find_genie_space_by_name(platform_spaces, display_name) ==
  LET exact == { k \in 1..Len(platform_spaces) :
                   platform_spaces[k].display_name = display_name }
  IN IF exact = {} THEN None
     ELSE Some(platform_spaces[CHOOSE k \in exact : \A j \in exact : k <= j])

\* a mutation of MAS_AGENTS: the endpoint is named after the whole tile id
MAS_AGENTS_WholeId(ka_tile_id, genie_space_id) ==
  << [name |-> "equipment_docs_agent", agent_type |-> "ka",
      ref |-> "ka-" \o ka_tile_id \o "-endpoint"],
     [name |-> "equipment_catalog_agent", agent_type |-> "genie",
      ref |-> genie_space_id] >>

\* MAS_AGENTS; the endpoint name is built of ka_tile_id.split('-')[0]
MAS_AGENTS(ka_tile_id, genie_space_id) ==
  LET dashes == { k \in 1..Len(ka_tile_id) : SubSeq(ka_tile_id, k, k) = "-" }
      first == IF dashes = {} THEN ka_tile_id
               ELSE SubSeq(ka_tile_id, 1,
                           (CHOOSE k \in dashes : \A j \in dashes : k <= j) - 1)
  IN << [name |-> "equipment_docs_agent", agent_type |-> "ka",
         ref |-> "ka-" \o first \o "-endpoint"],
        [name |-> "equipment_catalog_agent", agent_type |-> "genie",
         ref |-> genie_space_id] >>

\* ------------------------------------------------------------------ state
VARIABLES
  pc,               \* the cell of 02_generate_structured_data.py about to run
  seed,             \* the argument of random.seed
  rng,              \* the state of the random module's generator
  run,              \* how many times the notebook has been started
  inventory_rows,   \* the list inventory_rows
  asset_ids,        \* the list asset_ids
  work_order_rows,  \* the list work_order_rows
  contracts_data,   \* the list contracts_data
  volume,           \* the parquet directory of each table: its rows
  runs,             \* history: the batches of each finished run, in order
  docs,             \* 00: the list docs, the metadata of the generated documents
  equipment_docs,   \* 00: the volume directory equipment_docs: name -> file
  files,            \* 00: the listing taken by the verification cell
  doc_error,        \* 00: the exception that ended the batch loop, if any
  truncated,        \* 00: the names of the files a failed write left incomplete
  doc_rng,          \* 00: the generator the batch reads, and the outputs each document read
  twin,             \* 00: the batch of the same generator with one output changed
  tiles,            \* 03: the platform's tiles (assistants and supervisors), as listed
  spaces,           \* 03: the platform's Genie spaces, as listed
  bricks_pc,        \* 03: the REST call notebook 03 is about to make
  env,              \* 03: ka_tile_id, genie_space_id, mas_tile_id and created
  calls,            \* 03: history: the REST calls of the current run, in order
  bricks_run,       \* 03: how many times notebook 03 has been started
  tiles_at_start    \* 03: history: the platform's tiles when the current run started

docVars == <<docs, equipment_docs, files, doc_error, truncated, doc_rng, twin>>

bricksVars == <<tiles, spaces, bricks_pc, env, calls, bricks_run, tiles_at_start>>

vars == <<pc, seed, rng, run, inventory_rows, asset_ids, work_order_rows,
          contracts_data, volume, runs, docVars, bricksVars>>

TABLES == {"facilities", "equipment_inventory", "work_orders", "manufacturer_contracts"}

Seeds == ProgramSeed .. (ProgramSeed + ExtraSeeds)

\* The platform before notebook 03 is run.  It may hold an assistant and a
\* supervisor of the configured names, configured differently from what the
\* notebook would create, the Genie space of the configured name, and (near)
\* resources whose names contain a configured name without being equal to
\* it, listed before the others.
PlatformTiles(ka, mas, near) ==
  LET tile(id, name, type) ==
        [tile_id |-> id, name |-> name, tile_type |-> type,
         instructions |-> "earlier instructions", agents |-> <<>>, examples |-> <<>>]
  IN (IF near THEN << tile("0a1b-01", KA_NAME \o "_v2", "KA"),
                      tile("0c2d-02", "Old_" \o MAS_NAME, "MAS"),
                      tile("0e3f-03", MAS_NAME, "KA") >> ELSE <<>>)
     \o (IF ka THEN << tile("7f3a-04", KA_NAME, "KA") >> ELSE <<>>)
     \o (IF mas THEN << tile("9b2c-05", MAS_NAME, "MAS") >> ELSE <<>>)

PlatformSpaces(genie, near) ==
  (IF near THEN << [space_id |-> "sp-00", display_name |-> GENIE_SPACE_NAME \o " (dev)"] >>
   ELSE <<>>)
  \o (IF genie THEN << [space_id |-> "sp-01", display_name |-> GENIE_SPACE_NAME] >>
      ELSE <<>>)

\* the notebook's variables before its first cell, and no exception raised
EmptyEnv == [ka_tile_id |-> None, genie_space_id |-> None, mas_tile_id |-> None,
             created |-> <<>>, error |-> None]

\* The session before the notebooks are run: nothing generated, nothing
\* written, and a platform out of platforms (<<ka, mas, genie, near>>).
\* Notebook 00 never seeds the generator: it starts in a state out of
\* entropy[1], and the twin batch is forced as entropy[2] says.
InitWith(seeds, platforms, entropy) ==
  /\ \E s \in entropy[1], forced \in entropy[2] :
       /\ doc_rng = [s |-> s, read |-> <<>>]
       /\ twin = [forced |-> forced, s |-> s, read |-> <<>>, docs |-> <<>>]
  /\ \E p \in platforms : /\ tiles = PlatformTiles(p[1], p[2], p[4])
                          /\ spaces = PlatformSpaces(p[3], p[4])
  /\ bricks_pc = "find_ka"
  /\ env = EmptyEnv
  /\ calls = <<>>
  /\ bricks_run = 1
  /\ tiles_at_start = tiles
  /\ pc = "start"
  /\ seed \in seeds
  /\ rng = 0
  /\ run = 1
  /\ inventory_rows = <<>>
  /\ asset_ids = <<>>
  /\ work_order_rows = <<>>
  /\ contracts_data = <<>>
  /\ volume = [t \in TABLES |-> <<>>]
  /\ runs = <<>>
  /\ docs = <<>>
  /\ equipment_docs = [f \in {} |-> None]
  /\ files = None
  /\ doc_error = None
  /\ truncated = {}

Init == InitWith(Seeds, {<<FALSE, FALSE, FALSE, FALSE>>}, <<{0}, {None}>>)

\* ---------------------------------------------------------------- actions
\* a mutation of Start: the cell does not seed the generator
StartWithoutSeed ==
  /\ pc = "start"
  /\ pc' = "facilities"
  /\ UNCHANGED docVars
  /\ UNCHANGED bricksVars
  /\ UNCHANGED <<seed, rng, run, inventory_rows, asset_ids, work_order_rows,
                 contracts_data, volume, runs>>

\* The reference-data cell: random.seed(...)
Start ==
  /\ pc = "start"
  /\ rng' = seed
  /\ pc' = "facilities"
  /\ UNCHANGED docVars
  /\ UNCHANGED bricksVars
  /\ UNCHANGED <<seed, run, inventory_rows, asset_ids, work_order_rows,
                 contracts_data, volume, runs>>

\* a mutation of WriteParquet: mode("append")
WriteParquetAppend(table, rows) == [volume EXCEPT ![table] = @ \o rows]

\* df.write.mode("overwrite").parquet(path): the directory holds the rows of
\* the frame and nothing else
WriteParquet(table, rows) == [volume EXCEPT ![table] = rows]

\* The facilities cell, and the first lines of the inventory cell
WriteFacilities ==
  /\ pc = "facilities"
  /\ volume' = WriteParquet("facilities", facilities_data)
  /\ inventory_rows' = <<>>
  /\ pc' = "inventory"
  /\ UNCHANGED docVars
  /\ UNCHANGED bricksVars
  /\ UNCHANGED <<seed, rng, run, asset_ids, work_order_rows, contracts_data, runs>>

\* One iteration of "for i in range(limit)" of the inventory cell, with the
\* draws d, leaving the generator in state r
InventoryStep(limit, d, r) ==
  /\ pc = "inventory"
  /\ Len(inventory_rows) < limit
  /\ inventory_rows' = Append(inventory_rows, InventoryRow(Len(inventory_rows), d))
  /\ rng' = r
  /\ UNCHANGED docVars
  /\ UNCHANGED bricksVars
  /\ UNCHANGED <<pc, seed, run, asset_ids, work_order_rows, contracts_data, volume, runs>>

\* a mutation of AssetIdsOf: the second column is read instead of the first
AssetIdsFromModelColumn(rows) == [k \in 1..Len(rows) |-> rows[k].model_number]

\* asset_ids = [row[0] for row in inventory_rows]
AssetIdsOf(rows) == [k \in 1..Len(rows) |-> rows[k].asset_id]

\* The end of the inventory cell and the first lines of the work-order cell
WriteInventory(limit) ==
  /\ pc = "inventory"
  /\ Len(inventory_rows) = limit
  /\ volume' = WriteParquet("equipment_inventory", inventory_rows)
  /\ asset_ids' = AssetIdsOf(inventory_rows)
  /\ work_order_rows' = <<>>
  /\ pc' = "work_orders"
  /\ UNCHANGED docVars
  /\ UNCHANGED bricksVars
  /\ UNCHANGED <<seed, rng, run, inventory_rows, contracts_data, runs>>

\* One iteration of "for i in range(limit)" of the work-order cell
WorkOrderStep(limit, d, r) ==
  /\ pc = "work_orders"
  /\ Len(work_order_rows) < limit
  /\ work_order_rows' =
       Append(work_order_rows, WorkOrderRow(Len(work_order_rows), asset_ids, d))
  /\ rng' = r
  /\ UNCHANGED docVars
  /\ UNCHANGED bricksVars
  /\ UNCHANGED <<pc, seed, run, inventory_rows, asset_ids, contracts_data, volume, runs>>

\* The end of the work-order cell and the first lines of the contracts cell
WriteWorkOrders(limit) ==
  /\ pc = "work_orders"
  /\ Len(work_order_rows) = limit
  /\ volume' = WriteParquet("work_orders", work_order_rows)
  /\ contracts_data' = <<>>
  /\ pc' = "contracts"
  /\ UNCHANGED docVars
  /\ UNCHANGED bricksVars
  /\ UNCHANGED <<seed, rng, run, inventory_rows, asset_ids, work_order_rows, runs>>

\* One iteration of "for i, manufacturer in enumerate(MANUFACTURERS[:limit])"
ContractStep(limit, d, r) ==
  /\ pc = "contracts"
  /\ Len(contracts_data) < limit
  /\ contracts_data' = Append(contracts_data, ContractRow(Len(contracts_data), d))
  /\ rng' = r
  /\ UNCHANGED docVars
  /\ UNCHANGED bricksVars
  /\ UNCHANGED <<pc, seed, run, inventory_rows, asset_ids, work_order_rows, volume, runs>>

\* The end of the contracts cell and the summary cell
WriteContracts(limit) ==
  /\ pc = "contracts"
  /\ Len(contracts_data) = limit
  /\ volume' = WriteParquet("manufacturer_contracts", contracts_data)
  /\ runs' = Append(runs, [facilities |-> facilities_data,
                           inventory |-> inventory_rows,
                           work_orders |-> work_order_rows,
                           contracts |-> contracts_data,
                           stream |-> rng])
  /\ pc' = "done"
  /\ UNCHANGED docVars
  /\ UNCHANGED bricksVars
  /\ UNCHANGED <<seed, rng, run, inventory_rows, asset_ids, work_order_rows, contracts_data>>



\* The notebook is run again in the same session (lists and files remain
\* until the cells replace them).
Rerun ==
  /\ pc = "done"
  /\ run < MaxRuns
  /\ run' = run + 1
  /\ pc' = "start"
  /\ UNCHANGED docVars
  /\ UNCHANGED bricksVars
  /\ UNCHANGED <<seed, rng, inventory_rows, asset_ids, work_order_rows,
                 contracts_data, volume, runs>>

\* ------------------------------------------------- 00: the batch loop
dataVars == <<pc, seed, rng, run, inventory_rows, asset_ids, work_order_rows,
              contracts_data, volume, runs>>

\* "meta = generate_equipment_pdf(i)" in the loop, i being the number of the
\* documents generated before: the call is handed nothing else of them.
NextDocumentCopyingLast(before, d) ==
  IF before = <<>> THEN generate_equipment_pdf(0, d)
  ELSE [generate_equipment_pdf(Len(before), d)
          EXCEPT !.manufacturer = before[Len(before)].manufacturer]

NextDocument(before, d) == generate_equipment_pdf(Len(before), d)

\* One iteration of "for i in range(NUM_DOCS)": generate the document, write
\* its bytes to dest_path (an existing file of that name is replaced), drop
\* pdf_bytes from the metadata and append the metadata to docs.  The draws d
\* are the caller's, and so is the generator they are read from.
GenerateDocument(limit, d) ==
  /\ files = None
  /\ doc_error = None
  /\ Len(docs) < limit
  /\ LET meta == NextDocument(docs, d)
     IN /\ equipment_docs' =
             [f \in DOMAIN equipment_docs \cup {meta.filename} |->
                IF f = meta.filename THEN meta.pdf_bytes ELSE equipment_docs[f]]
        /\ docs' = Append(docs, [filename |-> meta.filename,
                                 equipment_name |-> meta.equipment_name,
                                 model_number |-> meta.model_number,
                                 manufacturer |-> meta.manufacturer,
                                 certification_id |-> meta.certification_id,
                                 certification_status |-> meta.certification_status])
  /\ UNCHANGED <<files, doc_error, truncated>>
  /\ UNCHANGED dataVars
  /\ UNCHANGED bricksVars

\* The verification cell: files = dbutils.fs.ls(volume_dest)
VerifyUploads(limit) ==
  /\ files = None
  /\ doc_error = None
  /\ Len(docs) = limit
  /\ files' = Some(DOMAIN equipment_docs \cup truncated)
  /\ UNCHANGED <<docs, equipment_docs, doc_error, truncated, doc_rng, twin>>
  /\ UNCHANGED dataVars
  /\ UNCHANGED bricksVars

\* a mutation of FailDocument: the failure removes what the batch had written
FailDocumentWithRollback(limit, d, at) ==
  /\ files = None
  /\ doc_error = None
  /\ Len(docs) < limit
  /\ doc_error' = Some([index |-> Len(docs), at |-> at,
                        path |-> IF at = "generate" THEN None
                                 ELSE Some(generate_equipment_pdf(Len(docs), d).filename)])
  /\ equipment_docs' = [f \in {} |-> None]
  /\ docs' = <<>>
  /\ UNCHANGED <<files, truncated>>
  /\ UNCHANGED dataVars
  /\ UNCHANGED bricksVars

\* One iteration of the batch loop that raises: in generate_equipment_pdf
\* (at = "generate"), in open(dest_path, "wb") (at = "open"), or in f.write
\* after the file was opened, which leaves an incomplete file at dest_path
\* (at = "write").  Nothing catches the exception: the loop and the notebook
\* end, and docs.append is not reached.
FailDocument(limit, d, at) ==
  /\ files = None
  /\ doc_error = None
  /\ Len(docs) < limit
  /\ LET filename == generate_equipment_pdf(Len(docs), d).filename
     IN /\ doc_error' = Some([index |-> Len(docs), at |-> at,
                              path |-> IF at = "generate" THEN None ELSE Some(filename)])
        /\ IF at = "write"
             THEN /\ equipment_docs' = [f \in DOMAIN equipment_docs \ {filename} |->
                                          equipment_docs[f]]
                  /\ truncated' = truncated \cup {filename}
             ELSE UNCHANGED <<equipment_docs, truncated>>
  /\ UNCHANGED <<docs, files>>
  /\ UNCHANGED dataVars
  /\ UNCHANGED bricksVars

\* ------------------------------------------------- 03: the provisioning run
\* Every REST call either returns (resp = "ok") or makes raise_for_status or
\* requests raise: "error" when the platform refused the request, "timeout"
\* when a POST was carried out but its response never arrived.

\* one step of notebook 03: the call made, the cell reached and the variables
\* assigned; an exception ends the run
BricksStep(method, api, resp, next_pc, next_env) ==
  /\ calls' = Append(calls, [method |-> method, api |-> api, resp |-> resp])
  /\ bricks_pc' = next_pc
  /\ env' = next_env
  /\ UNCHANGED <<bricks_run, tiles_at_start>>
  /\ UNCHANGED dataVars
  /\ UNCHANGED docVars

Raised(exception) == [env EXCEPT !.error = Some(exception)]

\* the tile the platform creates for a POST
NewTile(name, tile_type, instructions, agents) ==
  [tile_id |-> ToString(Len(tiles) + 1) \o "d4e-new", name |-> name,
   tile_type |-> tile_type, instructions |-> instructions, agents |-> agents,
   examples |-> <<>>]

\* a mutation of FindKA: the result of the search is not looked at
FindKAThenCreate(resp) ==
  /\ bricks_pc = "find_ka"
  /\ IF resp # "ok"
       THEN BricksStep("GET", "tiles KA", resp, "failed", Raised("HTTPError"))
     ELSE BricksStep("GET", "tiles KA", resp, "create_ka", env)
  /\ UNCHANGED <<tiles, spaces>>

\* existing_ka = find_ka_by_name(w, KA_NAME)
FindKA(resp) ==
  /\ bricks_pc = "find_ka"
  /\ LET existing_ka == find_tile_by_name(tiles, KA_NAME, "KA")
     IN IF resp # "ok"
          THEN BricksStep("GET", "tiles KA", resp, "failed", Raised("HTTPError"))
        ELSE IF existing_ka # None
          THEN BricksStep("GET", "tiles KA", resp, "get_ka",
                          [env EXCEPT !.ka_tile_id = Some(existing_ka[1].tile_id)])
        ELSE BricksStep("GET", "tiles KA", resp, "create_ka", env)
  /\ UNCHANGED <<tiles, spaces>>

\* a mutation of GetKA: the status of the response is not checked
GetKAUnchecked(resp) ==
  /\ bricks_pc = "get_ka"
  /\ BricksStep("GET", "knowledge-assistants/id", resp, "find_genie", env)
  /\ UNCHANGED <<tiles, spaces>>

\* ka_details = get_ka(w, ka_tile_id)
GetKA(resp) ==
  /\ bricks_pc = "get_ka"
  /\ IF resp # "ok"
       THEN BricksStep("GET", "knowledge-assistants/id", resp, "failed", Raised("HTTPError"))
     ELSE BricksStep("GET", "knowledge-assistants/id", resp, "find_genie", env)
  /\ UNCHANGED <<tiles, spaces>>

\* ka_result = create_knowledge_assistant(...)
CreateKA(resp) ==
  /\ bricks_pc = "create_ka"
  /\ LET tile == NewTile(KA_NAME, "KA", "notebook instructions", <<>>)
     IN /\ tiles' = IF resp = "error" THEN tiles ELSE Append(tiles, tile)
        /\ IF resp # "ok"
             THEN BricksStep("POST", "knowledge-assistants", resp, "failed", Raised("HTTPError"))
           ELSE BricksStep("POST", "knowledge-assistants", resp, "find_genie",
                           [env EXCEPT !.ka_tile_id = Some(tile.tile_id)])
  /\ UNCHANGED spaces

\* genie_space = find_genie_space_by_name(w, GENIE_SPACE_NAME), ValueError
\* when there is none
FindGenie(resp) ==
  /\ bricks_pc = "find_genie"
  /\ LET genie_space == find_genie_space_by_name(spaces, GENIE_SPACE_NAME)
     IN IF resp # "ok"
          THEN BricksStep("GET", "data-rooms", resp, "failed", Raised("HTTPError"))
        ELSE IF genie_space # None
          THEN BricksStep("GET", "data-rooms", resp, "find_mas",
                          [env EXCEPT !.genie_space_id = Some(genie_space[1].space_id)])
        ELSE BricksStep("GET", "data-rooms", resp, "failed", Raised("ValueError"))
  /\ UNCHANGED <<tiles, spaces>>

\* existing_mas = find_mas_by_name(w, MAS_NAME)
FindMAS(resp) ==
  /\ bricks_pc = "find_mas"
  /\ LET existing_mas == find_tile_by_name(tiles, MAS_NAME, "MAS")
     IN IF resp # "ok"
          THEN BricksStep("GET", "tiles MAS", resp, "failed", Raised("HTTPError"))
        ELSE IF existing_mas # None
          THEN BricksStep("GET", "tiles MAS", resp, "get_mas",
                          [env EXCEPT !.mas_tile_id = Some(existing_mas[1].tile_id)])
        ELSE BricksStep("GET", "tiles MAS", resp, "create_mas", env)
  /\ UNCHANGED <<tiles, spaces>>

\* mas_details = get_mas(w, mas_tile_id)
GetMAS(resp) ==
  /\ bricks_pc = "get_mas"
  /\ IF resp # "ok"
       THEN BricksStep("GET", "multi-agent-supervisors/id", resp, "failed", Raised("HTTPError"))
     ELSE BricksStep("GET", "multi-agent-supervisors/id", resp, "summary", env)
  /\ UNCHANGED <<tiles, spaces>>

\* mas_result = create_multi_agent_supervisor(...)
CreateMAS(resp) ==
  /\ bricks_pc = "create_mas"
  /\ LET tile == NewTile(MAS_NAME, "MAS", "notebook instructions",
                         MAS_AGENTS(env.ka_tile_id[1], env.genie_space_id[1]))
     IN /\ tiles' = IF resp = "error" THEN tiles ELSE Append(tiles, tile)
        /\ IF resp # "ok"
             THEN BricksStep("POST", "multi-agent-supervisors", resp, "failed", Raised("HTTPError"))
           ELSE BricksStep("POST", "multi-agent-supervisors", resp, "examples",
                           [env EXCEPT !.mas_tile_id = Some(tile.tile_id)])
  /\ UNCHANGED spaces

\* a mutation of AddExample: a failed request ends the loop
AddExampleStoppingAtFailure(resp) ==
  /\ bricks_pc = "examples"
  /\ LET done == Cardinality({ k \in 1..Len(calls) : calls[k].api = "examples" })
         question == MAS_EXAMPLES[done + 1]
         next_pc == IF done + 1 = Len(MAS_EXAMPLES) \/ resp # "ok"
                    THEN "summary" ELSE "examples"
     IN /\ tiles' = IF resp = "error" THEN tiles
                    ELSE [k \in 1..Len(tiles) |->
                            IF tiles[k].tile_id = env.mas_tile_id[1]
                              THEN [tiles[k] EXCEPT !.examples = Append(@, question)]
                            ELSE tiles[k]]
        /\ IF resp = "ok"
             THEN BricksStep("POST", "examples", resp, next_pc,
                             [env EXCEPT !.created = Append(@, question)])
           ELSE BricksStep("POST", "examples", resp, next_pc, env)
  /\ UNCHANGED spaces

\* One iteration of "for ex in examples" of add_mas_examples: the POST, and
\* the except clause that prints a failure and goes on to the next example.
AddExample(resp) ==
  /\ bricks_pc = "examples"
  /\ LET done == Cardinality({ k \in 1..Len(calls) : calls[k].api = "examples" })
         question == MAS_EXAMPLES[done + 1]
         next_pc == IF done + 1 = Len(MAS_EXAMPLES) THEN "summary" ELSE "examples"
     IN /\ tiles' = IF resp = "error" THEN tiles
                    ELSE [k \in 1..Len(tiles) |->
                            IF tiles[k].tile_id = env.mas_tile_id[1]
                              THEN [tiles[k] EXCEPT !.examples = Append(@, question)]
                            ELSE tiles[k]]
        /\ IF resp = "ok"
             THEN BricksStep("POST", "examples", resp, next_pc,
                             [env EXCEPT !.created = Append(@, question)])
           ELSE BricksStep("POST", "examples", resp, next_pc, env)
  /\ UNCHANGED spaces

\* The summary cell: the run completes normally.
Summary ==
  /\ bricks_pc = "summary"
  /\ bricks_pc' = "done"
  /\ UNCHANGED <<tiles, spaces, env, calls, bricks_run, tiles_at_start>>
  /\ UNCHANGED dataVars
  /\ UNCHANGED docVars

\* Notebook 03 is run again, after a run that completed or failed.
RerunBricks ==
  /\ bricks_pc \in {"done", "failed"}
  /\ bricks_run < MaxRuns
  /\ bricks_run' = bricks_run + 1
  /\ bricks_pc' = "find_ka"
  /\ env' = EmptyEnv
  /\ calls' = <<>>
  /\ tiles_at_start' = tiles
  /\ UNCHANGED <<tiles, spaces>>
  /\ UNCHANGED dataVars
  /\ UNCHANGED docVars

\* ------------------------------------------- the seeded specification
SeededInventoryStep ==
  LET r == SeededInventoryDraws(rng) IN InventoryStep(InventoryCount, r.d, r.rng)

SeededWorkOrderStep ==
  LET r == SeededWorkOrderDraws(rng, Len(asset_ids))
  IN WorkOrderStep(WorkOrderCount, r.d, r.rng)

SeededContractStep ==
  LET r == SeededContractDraws(rng) IN ContractStep(Len(MANUFACTURERS), r.d, r.rng)

Next ==
  \/ Start
  \/ WriteFacilities
  \/ SeededInventoryStep
  \/ WriteInventory(InventoryCount)
  \/ SeededWorkOrderStep
  \/ WriteWorkOrders(WorkOrderCount)
  \/ SeededContractStep
  \/ WriteContracts(Len(MANUFACTURERS))
  \/ Rerun

\* The notebook as written: every draw comes from the stream seeded in Start.
Spec == Init /\ [][Next]_vars

\* --------------------------------------- the free-choice specifications
\* Here a draw is any value the call can return.  The draws of one iteration
\* range over a base choice varied in one group of draws at a time.

\* str -> int for a string of decimal digits
Digit(c) ==
  CASE c = "0" -> 0 [] c = "1" -> 1 [] c = "2" -> 2 [] c = "3" -> 3 [] c = "4" -> 4
    [] c = "5" -> 5 [] c = "6" -> 6 [] c = "7" -> 7 [] c = "8" -> 8 [] c = "9" -> 9

RECURSIVE ParseInt(_)
ParseInt(s) ==
  IF Len(s) = 0 THEN 0
  ELSE 10 * ParseInt(SubSeq(s, 1, Len(s) - 1)) + Digit(SubSeq(s, Len(s), Len(s)))

\* F.to_date on an ISO date column, as an ordinal
ToDate(s) == Date(ParseInt(SubSeq(s, 1, 4)), ParseInt(SubSeq(s, 6, 7)), ParseInt(SubSeq(s, 9, 10)))

InvBase ==
  [eq |-> 1, mfr |-> 1, model_num |-> 1000, model_letter |-> 1, model_digit |-> 1,
   fac |-> 1, purchase_off |-> 0, warranty_years |-> 1,
   last_off |-> InspectionMinOffset, next_off |-> INSPECTION_INTERVALS[1],
   price |-> PriceRange(EQUIPMENT_TYPES[1][2])[1], voltage |-> 1, ip |-> 1, op |-> 1,
   serial_year |-> 2020, loc |-> 1]

InvDraws ==
  \* the facility draw
  { [InvBase EXCEPT !.fac = f] : f \in WeightedChoices(FacilityWeightList) }
  \cup
  \* the equipment type and the two ends of its price range
  { [InvBase EXCEPT !.eq = e, !.price = PriceRange(EQUIPMENT_TYPES[e][2])[k]] :
      e \in 1..Len(EQUIPMENT_TYPES), k \in 1..2 }
  \cup
  \* the purchase date at both ends and where the upper bound of the
  \* last-inspection draw changes, with both ends of that draw
  UNION { { [InvBase EXCEPT !.purchase_off = p, !.last_off = l] :
              l \in {InspectionMinOffset, LastInspectionMax(PurchaseEpoch + p)} } :
          p \in {0, Today - PurchaseEpoch - PurchaseMaxOffset,
                 Today - PurchaseEpoch - PurchaseMaxOffset + 1, PurchaseMaxOffset} }
  \cup
  \* the inspection interval
  { [InvBase EXCEPT !.next_off = INSPECTION_INTERVALS[n]] :
      n \in 1..Len(INSPECTION_INTERVALS) }

WOBase ==
  [asset |-> 1, wo_type |-> 1, priority |-> 1, em_priority |-> 1, status |-> 6,
   days |-> 0, hours |-> 6, minutes |-> 0, sched_off |-> 0, comp_off |-> 0,
   labor |-> 5, parts |-> 0, downtime |-> 0, desc |-> 1, tech |-> 1]

\* the indices of the second priority draw: it is made for an Emergency Repair only
EmPriorityDraws(t) ==
  IF WORK_ORDER_TYPES[t] = "Emergency Repair" THEN 1..Len(EMERGENCY_PRIORITIES) ELSE {1}

\* one index for each distinct value of a list with repeated entries
DistinctIndices(list) ==
  { k \in 1..Len(list) : \A j \in 1..(k - 1) : list[j] # list[k] }

WODraws(n_assets) ==
  \* the asset draw
  { [WOBase EXCEPT !.asset = a] : a \in 1..n_assets }
  \cup
  \* type and both priority draws
  UNION { { [WOBase EXCEPT !.wo_type = t, !.priority = p, !.em_priority = e] :
              p \in DistinctIndices(PRIORITIES),
              e \in EmPriorityDraws(t) \cap DistinctIndices(EMERGENCY_PRIORITIES) } :
          t \in DistinctIndices(WORK_ORDER_TYPES) }
  \cup
  \* type and status, with the greatest cost draws (the base has the least)
  { [WOBase EXCEPT !.wo_type = t, !.status = s,
                   !.labor = IF WO_STATUSES[s] = "Completed" THEN 160 ELSE 40,
                   !.parts = 450000, !.downtime = 80] :
      t \in DistinctIndices(WORK_ORDER_TYPES), s \in DistinctIndices(WO_STATUSES) }
  \cup
  \* the date draws at the ends of their ranges, for a type that keeps the
  \* drawn schedule and for Emergency Repair
  { [WOBase EXCEPT !.wo_type = t, !.status = s, !.days = 775, !.hours = 18,
                   !.minutes = 59, !.sched_off = so, !.comp_off = co] :
      t \in {1, Len(WORK_ORDER_TYPES)}, s \in {1, 6}, so \in {0, 14}, co \in {0, 3} }

ContractBase ==
  [contract_type |-> 1, start_off |-> 0, duration |-> 1, annual_value |-> 2500000, sla |-> 1]

\* start offsets at the ends of the range and around the two status boundaries
BoundaryStartOffsets ==
  { o \in 0..365 :
      \/ o \in {0, 365}
      \/ \E y \in 1..Len(DURATION_YEARS) :
           (ContractEpoch + o + DURATION_YEARS[y] * 365) - Today
             \in {-1, 0, 1, ExpiringSoonDays - 1, ExpiringSoonDays, ExpiringSoonDays + 1} }

ContractDraws ==
  { [ContractBase EXCEPT !.start_off = o, !.duration = y] :
      o \in BoundaryStartOffsets, y \in 1..Len(DURATION_YEARS) }
  \cup
  { [ContractBase EXCEPT !.contract_type = c, !.sla = h, !.annual_value = v,
                         !.start_off = o, !.duration = 3] :
      c \in 1..Len(CONTRACT_TYPES), h \in {1, Len(SLA_HOURS)},
      v \in {2500000, 35000000}, o \in {0, 365} }

InitFree == InitWith({ProgramSeed}, {<<FALSE, FALSE, FALSE, FALSE>>}, <<{0}, {None}>>)

FreeInventoryStep == \E d \in InvDraws : InventoryStep(NumAssets, d, rng)
BaseInventoryStep == InventoryStep(NumAssets, InvBase, rng)
FreeWorkOrderStep == \E d \in WODraws(Len(asset_ids)) : WorkOrderStep(NumWorkOrders, d, rng)
BaseWorkOrderStep == WorkOrderStep(NumWorkOrders, WOBase, rng)
FreeContractStep == \E d \in ContractDraws : ContractStep(NumContracts, d, rng)

\* the inventory cell under every draw
NextInventory ==
  \/ Start
  \/ WriteFacilities
  \/ FreeInventoryStep
  \/ WriteInventory(NumAssets)

SpecInventory == InitFree /\ [][NextInventory]_vars

\* the work-order cell under every draw, after an inventory of base draws
NextWorkOrders ==
  \/ Start
  \/ WriteFacilities
  \/ BaseInventoryStep
  \/ WriteInventory(NumAssets)
  \/ FreeWorkOrderStep
  \/ WriteWorkOrders(NumWorkOrders)

SpecWorkOrders == InitFree /\ [][NextWorkOrders]_vars

\* the contracts cell under every draw, after base inventory and work orders
NextContracts ==
  \/ Start
  \/ WriteFacilities
  \/ BaseInventoryStep
  \/ WriteInventory(NumAssets)
  \/ BaseWorkOrderStep
  \/ WriteWorkOrders(NumWorkOrders)
  \/ FreeContractStep
  \/ WriteContracts(NumContracts)

SpecContracts == InitFree /\ [][NextContracts]_vars

\* The draws of one document.  DocBase draws the first entry of every list,
\* the least of every range and PASS in every row.
TestDraws(names, s, result) ==
  [k \in 1..Len(names) |-> [name |-> names[k], s |-> s, result |-> result]]

GdtDraws(n, status) == [k \in 1..n |-> [tol_type |-> k, status |-> status]]

DocBase ==
  [eq |-> 1, mfr |-> 1, model_num |-> 1000, model_letter |-> 1, model_digit |-> 1,
   cert_year |-> 2024, cert_serial |-> 100000, cert_status |-> 1,
   ip |-> 1, voltage |-> 1,
   gdt |-> GdtDraws(6, 1), num_mats |-> 3,
   tests |-> TestDraws([k \in 1..7 |-> k], 0, 1)]

\* DocBase varied in one group of draws at a time.  FirstTests(n) samples the
\* first n test names, LastTests(n) the last n in reverse order.
DocDraws ==
  LET FirstTests(n) == [k \in 1..n |-> k]
      LastTests(n) == [k \in 1..n |-> Len(TEST_NAMES) + 1 - k]
  IN
  \* the status against the results: all PASS, all FAIL, one FAIL, one PASS
  { [DocBase EXCEPT !.cert_status = c,
                    !.tests = [TestDraws(FirstTests(n), 0, all) EXCEPT ![1].result = r]] :
      c \in DistinctIndices(CERT_STATUSES), n \in {7, 12}, all \in 1..2, r \in 1..2 }
  \cup
  \* every number of tests from the head of the catalog, and the tail of the
  \* catalog under another measurement draw
  { [DocBase EXCEPT !.tests = TestDraws(FirstTests(n), 0, 1)] : n \in 7..12 }
  \cup
  { [DocBase EXCEPT !.tests = TestDraws(LastTests(n), 65536, 1)] : n \in {7, 12} }
  \cup
  \* the GD&T and material tables: their lengths and the GD&T statuses
  { [DocBase EXCEPT !.gdt = GdtDraws(n, st), !.num_mats = n - 4] :
      n \in {6, 10}, st \in 1..2 }
  \cup
  \* the identifiers: the other end of every range, and the serial alone
  { [DocBase EXCEPT !.eq = Len(DOC_EQUIPMENT_TYPES), !.mfr = Len(DOC_MANUFACTURERS),
                    !.model_num = 9999, !.model_letter = 8, !.model_digit = 9,
                    !.cert_year = 2026, !.cert_serial = 999999,
                    !.ip = Len(DOC_IP_RATINGS), !.voltage = Len(DOC_VOLTAGES)],
    [DocBase EXCEPT !.cert_serial = 999999],
    [DocBase EXCEPT !.model_num = 9999] }

FreeGenerateDocument ==
  /\ \E d \in DocDraws : GenerateDocument(NumDocs, d)
  /\ UNCHANGED <<doc_rng, twin>>

\* notebook 00: the batch loop under every draw, then the verification cell
FreeFailDocument ==
  /\ \E d \in DocDraws, at \in {"generate", "open", "write"} : FailDocument(NumDocs, d, at)
  /\ UNCHANGED <<doc_rng, twin>>

NextDocs ==
  \/ FreeGenerateDocument
  \/ FreeFailDocument
  \/ VerifyUploads(NumDocs)

SpecDocs == InitFree /\ [][NextDocs]_vars

\* The batch loop read off the generator, next to its twin: the same loop on
\* the same generator outputs but for the one draw of document 1 that
\* twin.forced names.  Each batch goes on from where its last document
\* stopped reading.
StreamGenerateDocument ==
  LET a == ReadDocument(doc_rng.s, None)
      b == ReadDocument(twin.s, IF twin.docs = <<>> THEN twin.forced ELSE None)
  IN /\ GenerateDocument(NumDocs, a.d)
     /\ doc_rng' = [s |-> a.rng, read |-> Append(doc_rng.read, a.read)]
     /\ twin' = [twin EXCEPT !.s = b.rng,
                             !.read = Append(@, b.read),
                             !.docs = Append(@, NextDocument(twin.docs, b.d))]

NextDocStream ==
  \/ StreamGenerateDocument
  \/ VerifyUploads(NumDocs)

\* notebook 00 from every generator state 0 .. MaxEntropy, against every twin
\* that reads one of 0 .. MaxForced in one draw of document 1
SpecDocStream ==
  /\ InitWith({ProgramSeed}, {<<FALSE, FALSE, FALSE, FALSE>>},
              << 0..MaxEntropy,
                 { Some([draw |-> w, to |-> v]) :
                     w \in {"manufacturer", "num_gdt", "num_mats", "num_tests"},
                     v \in 0..MaxForced } >>)
  /\ [][NextDocStream]_vars

\* notebook 03 against every initial platform, every call answered each way
InitBricks ==
  InitWith({ProgramSeed}, BOOLEAN \X BOOLEAN \X BOOLEAN \X BOOLEAN, <<{0}, {None}>>)

NextBricks ==
  \/ \E resp \in {"ok", "error"} : \/ FindKA(resp)
                             \/ GetKA(resp)
                             \/ FindGenie(resp)
                             \/ FindMAS(resp)
                             \/ GetMAS(resp)
  \/ \E resp \in {"ok", "error", "timeout"} : \/ CreateKA(resp)
                                             \/ CreateMAS(resp)
                                             \/ AddExample(resp)
  \/ Summary
  \/ RerunBricks

SpecBricks == InitBricks /\ [][NextBricks]_vars

\* ------------------------------------------------------------- properties
Rows(seq) == { seq[k] : k \in 1..Len(seq) }

\* the inventory loop has finished in this run
InventoryGenerated == pc \in {"work_orders", "contracts", "done"}

\* the work-order rows of this run: none before its work-order cell starts
WorkOrdersOfRun == IF InventoryGenerated THEN Rows(work_order_rows) ELSE {}

\* C1: every inventory row, in memory or written, has a facility_id that is
\* one of FAC-001..FAC-008 and is the facility_id of a row of the facilities
\* batch written by the run.
C1_FacilityIdsResolve ==
  \A r \in Rows(inventory_rows) \cup Rows(volume["equipment_inventory"]) :
    /\ r.facility_id \in { f.facility_id : f \in Rows(volume["facilities"]) }
    /\ r.facility_id \in {"FAC-001", "FAC-002", "FAC-003", "FAC-004",
                          "FAC-005", "FAC-006", "FAC-007", "FAC-008"}

C1_Witness ==
  /\ pc = "work_orders"
  /\ Len(inventory_rows) = NumAssets
  /\ inventory_rows[1].facility_id = "FAC-008"
  /\ inventory_rows[NumAssets].facility_id = "FAC-005"

\* C2: every work order generated in a run has the asset_id of an inventory
\* row generated earlier in that run.
C2_WorkOrderAssetsResolve ==
  \A w \in WorkOrdersOfRun :
       w.asset_id \in { r.asset_id : r \in Rows(inventory_rows) }

C2_Witness ==
  /\ pc = "done"
  /\ Len(work_order_rows) = WorkOrderCount
  /\ \E w \in Rows(work_order_rows) : w.asset_id = "AST-000001"
  /\ \E w \in Rows(work_order_rows) : w.asset_id = "AST-000120"

\* C3: in every certification document written by the batch loop the roll-up
\* counts come from the document's own test rows: total_tests is the number
\* of test rows, passed the number of rows whose result is PASS, failed the
\* number of rows whose result is FAIL, and total_tests = passed + failed.
TestRowsOf(document) == SubSeq(document.test_data, 2, Len(document.test_data))

CountResult(rows, result) == Cardinality({ k \in DOMAIN rows : rows[k][4] = result })

C3_RollUpFromTestRows ==
  \A f \in DOMAIN equipment_docs :
    LET document == equipment_docs[f]
        rows == TestRowsOf(document)
    IN /\ document.test_data[1] = TEST_HEADER
       /\ document.summary.total_tests = Len(rows)
       /\ document.summary.passed = CountResult(rows, "PASS")
       /\ document.summary.failed = CountResult(rows, "FAIL")
       /\ document.summary.total_tests
            = document.summary.passed + document.summary.failed

\* the batch is complete and one of its documents has both PASS rows and
\* FAIL rows in its test table
C3_Witness ==
  /\ \E f \in DOMAIN equipment_docs :
       LET rows == TestRowsOf(equipment_docs[f])
       IN /\ CountResult(rows, "PASS") > 0
          /\ CountResult(rows, "FAIL") > 0
          /\ equipment_docs[f].summary.failed > 0
  /\ Len(docs) = NumDocs

\* C4: the status of every contract row is decided by its end date and the
\* reference date 2026-02-17 alone: Expired when the end date is earlier,
\* Expiring Soon when it is 0 to 89 days later, Active when it is 90 or more
\* days later.
C4_ContractStatusByEndDate ==
  \A r \in Rows(contracts_data) \cup Rows(volume["manufacturer_contracts"]) :
    LET delta == ToDate(r.end_date) - Date(2026, 2, 17)
    IN /\ delta < 0 => r.contract_status = "Expired"
       /\ (0 <= delta /\ delta < 90) => r.contract_status = "Expiring Soon"
       /\ delta >= 90 => r.contract_status = "Active"

\* a contract ending on the reference date beside one ending exactly 90 days
\* after it, and two contracts with one end date and different start dates
C4_Witness ==
  /\ Len(contracts_data) = NumContracts
  /\ \/ /\ contracts_data[1].end_date = "2026-02-17"
        /\ contracts_data[1].contract_status = "Expiring Soon"
        /\ contracts_data[2].end_date = "2026-05-18"
        /\ contracts_data[2].contract_status = "Active"
     \/ /\ contracts_data[1].end_date = contracts_data[2].end_date
        /\ contracts_data[1].start_date # contracts_data[2].start_date
        /\ contracts_data[1].contract_type # contracts_data[2].contract_type

\* C5: all finished runs of the notebook from one seed have produced the same
\* facilities, inventory, work-order and contract batches and left the random
\* stream at the same point.
C5_SameSeedSameBatches ==
  \A m, n \in 1..Len(runs) : runs[m] = runs[n]

C5_Witness ==
  /\ pc = "done"
  /\ Len(runs) = 2
  /\ Len(runs[2].inventory) = InventoryCount
  /\ Len(runs[2].work_orders) = WorkOrderCount
  /\ Len(runs[2].contracts) = Len(MANUFACTURERS)
  /\ runs[2].stream # seed

\* C6: every Emergency Repair work order has priority Critical or High.
C6_EmergencyPriority ==
  \A w \in Rows(work_order_rows) \cup Rows(volume["work_orders"]) :
    w.work_order_type = "Emergency Repair" => w.priority \in {"Critical", "High"}

\* an Emergency Repair beside an order of another type with priority Low
C6_Witness ==
  /\ Len(work_order_rows) = NumWorkOrders
  /\ work_order_rows[1].work_order_type = "Emergency Repair"
  /\ work_order_rows[1].priority = "High"
  /\ work_order_rows[2].work_order_type # "Emergency Repair"
  /\ work_order_rows[2].priority = "Low"

\* C7: every Emergency Repair work order is scheduled on the date of its
\* created_at timestamp.
C7_EmergencySameDay ==
  \A w \in Rows(work_order_rows) \cup Rows(volume["work_orders"]) :
    w.work_order_type = "Emergency Repair" =>
      w.scheduled_date = SubSeq(w.created_at, 1, 10)

\* an Emergency Repair beside an order of another type, created at the same
\* time, that is scheduled 14 days later
C7_Witness ==
  /\ Len(work_order_rows) = NumWorkOrders
  /\ work_order_rows[1].work_order_type = "Emergency Repair"
  /\ work_order_rows[2].work_order_type # "Emergency Repair"
  /\ work_order_rows[2].created_at = work_order_rows[1].created_at
  /\ ToDate(work_order_rows[2].scheduled_date)
       = ToDate(SubSeq(work_order_rows[2].created_at, 1, 10)) + 14

\* C8: every Open or Cancelled work order has null labor_hours, parts_cost_usd
\* and downtime_hours.
C8_OpenCancelledNoCosts ==
  \A w \in Rows(work_order_rows) \cup Rows(volume["work_orders"]) :
    w.status \in {"Open", "Cancelled"} =>
      /\ w.labor_hours = None
      /\ w.parts_cost_usd = None
      /\ w.downtime_hours = None

\* an Open and a Cancelled order of types that draw costs when Completed
C8_Witness ==
  /\ Len(work_order_rows) = NumWorkOrders
  /\ work_order_rows[1].status = "Open"
  /\ work_order_rows[1].work_order_type = "Emergency Repair"
  /\ work_order_rows[2].status = "Cancelled"
  /\ work_order_rows[2].work_order_type = "Corrective Repair"

\* C9: a Completed order has all of labor_hours, parts_cost_usd,
\* downtime_hours and completed_date; an In Progress order has labor_hours and
\* none of the other three; an order of any other status has none of the four.
C9_CostsByStatus ==
  \A w \in Rows(work_order_rows) \cup Rows(volume["work_orders"]) :
    /\ w.status = "Completed" =>
         /\ w.labor_hours # None /\ w.parts_cost_usd # None
         /\ w.downtime_hours # None /\ w.completed_date # None
    /\ w.status = "In Progress" =>
         /\ w.labor_hours # None /\ w.parts_cost_usd = None
         /\ w.downtime_hours = None /\ w.completed_date = None
    /\ w.status \notin {"Completed", "In Progress"} =>
         /\ w.labor_hours = None /\ w.parts_cost_usd = None
         /\ w.downtime_hours = None /\ w.completed_date = None

\* a Completed order with a drawn parts cost beside an In Progress order of
\* the same type
C9_Witness ==
  /\ Len(work_order_rows) = NumWorkOrders
  /\ work_order_rows[1].status = "Completed"
  /\ work_order_rows[1].parts_cost_usd = Some(450000)
  /\ work_order_rows[2].status = "In Progress"
  /\ work_order_rows[2].work_order_type = work_order_rows[1].work_order_type

\* C10: once the inventory loop has finished, the inventory has exactly 120
\* rows, row k (from 1) has asset_id AST- followed by k in six digits, and the
\* ids are pairwise distinct, whatever the seed; the same holds of the
\* inventory batch of every finished run.
InventoryIdsInOrder(rows) ==
  /\ Len(rows) = 120
  /\ rows[1].asset_id = "AST-000001"
  /\ rows[120].asset_id = "AST-000120"
  /\ \A k \in 1..Len(rows) :
       /\ Len(rows[k].asset_id) = 10
       /\ SubSeq(rows[k].asset_id, 1, 4) = "AST-"
       /\ ParseInt(SubSeq(rows[k].asset_id, 5, 10)) = k
  /\ Cardinality({ r.asset_id : r \in Rows(rows) }) = 120

C10_InventoryIds ==
  /\ InventoryGenerated => InventoryIdsInOrder(inventory_rows)
  /\ \A n \in 1..Len(runs) : InventoryIdsInOrder(runs[n].inventory)

C10_Witness ==
  /\ pc = "done"
  /\ seed # ProgramSeed
  /\ Len(inventory_rows) = InventoryCount
  /\ inventory_rows[1].facility_id # inventory_rows[2].facility_id

\* C11: the facilities batch is not randomized: whatever the seed and the
\* run, the written batch has exactly 8 rows, row k carries the id FAC-00k,
\* the ids are pairwise distinct, and every id has an entry in
\* facility_weights; the batch is written as soon as the facilities cell ran.
FacilitiesWritten == pc \notin {"start", "facilities"} \/ run > 1

FacilityBatchFixed(rows) ==
  /\ Len(rows) = 8
  /\ \A k \in 1..Len(rows) : rows[k].facility_id = "FAC-" \o Fmt(k, 3)
  /\ Cardinality({ r.facility_id : r \in Rows(rows) }) = 8
  /\ \A r \in Rows(rows) : r.facility_id \in DOMAIN facility_weights

C11_FacilitiesFixed ==
  /\ FacilitiesWritten => FacilityBatchFixed(volume["facilities"])
  /\ \A n \in 1..Len(runs) : /\ FacilityBatchFixed(runs[n].facilities)
                             /\ runs[n].facilities = volume["facilities"]

\* a second run from another seed has written the facilities again, after a
\* first run whose inventory drew from the weights
C11_Witness ==
  /\ run = 2
  /\ pc = "inventory"
  /\ seed # ProgramSeed
  /\ Len(runs) = 1
  /\ Len(runs[1].inventory) = InventoryCount
  /\ Len(volume["facilities"]) = 8

\* C12: the contracts batch has exactly one contract per manufacturer of
\* MANUFACTURERS: row k is the contract of the k-th manufacturer, every
\* manufacturer occurs in exactly one row, the contract ids are CTR-0001 ..
\* CTR-0010 and pairwise distinct, and first_names and last_names have an
\* entry at every manufacturer index, which the row's contact name is built of.
OnePerManufacturer(rows) ==
  /\ Len(rows) = Len(MANUFACTURERS)
  /\ Len(rows) = 10
  /\ \A k \in 1..Len(MANUFACTURERS) :
       Cardinality({ j \in 1..Len(rows) : rows[j].manufacturer = MANUFACTURERS[k] }) = 1
  /\ \A k \in 1..Len(rows) : rows[k].contract_id = "CTR-" \o Fmt(k, 4)
  /\ Cardinality({ r.contract_id : r \in Rows(rows) }) = 10
  /\ \A k \in 1..Len(rows) :
       /\ k \in DOMAIN first_names
       /\ k \in DOMAIN last_names
       /\ rows[k].primary_contact = first_names[k] \o " " \o last_names[k]

C12_OneContractPerManufacturer ==
  /\ pc = "done" => /\ OnePerManufacturer(contracts_data)
                    /\ volume["manufacturer_contracts"] = contracts_data
  /\ \A n \in 1..Len(runs) : OnePerManufacturer(runs[n].contracts)

\* a finished run whose ten contracts are not all of one type
C12_Witness ==
  /\ pc = "done"
  /\ Len(contracts_data) = Len(MANUFACTURERS)
  /\ contracts_data[10].manufacturer = "Yokogawa Electric"
  /\ contracts_data[10].primary_contact = "Anna Johansson"
  /\ Cardinality({ r.contract_type : r \in Rows(contracts_data) }) > 1

\* C13: in a run that started with a Knowledge Assistant of the configured
\* name on the platform, the only calls made for the assistant are the name
\* search and the details read (no create request), and the platform's
\* assistants stay as they were; in a run that started with a Multi-Agent
\* Supervisor of the configured name, the only calls made for the supervisor
\* are the name search and the details read (no create request, no example
\* request), and the platform's supervisors stay as they were, although the
\* existing resources are configured differently from the notebook.
TilesOfType(platform_tiles, tile_type) ==
  SelectSeq(platform_tiles, LAMBDA t : t.tile_type = tile_type)

CallsTo(apis) == SelectSeq(calls, LAMBDA c : c.api \in apis)

ExistedAtStart(name, tile_type) ==
  \E k \in 1..Len(tiles_at_start) :
    tiles_at_start[k].name = name /\ tiles_at_start[k].tile_type = tile_type

NamedTiles(name, tile_type) ==
  { k \in 1..Len(tiles) : tiles[k].name = name /\ tiles[k].tile_type = tile_type }

C14_IdempotentByName ==
  /\ Cardinality(NamedTiles(KA_NAME, "KA")) <= 1
  /\ Cardinality(NamedTiles(MAS_NAME, "MAS")) <= 1
  /\ bricks_pc = "done" => /\ Cardinality(NamedTiles(KA_NAME, "KA")) = 1
                           /\ Cardinality(NamedTiles(MAS_NAME, "MAS")) = 1

\* a second run has completed after a first run that created both resources:
\* it found them and created nothing
C14_Witness ==
  /\ bricks_run = 2
  /\ bricks_pc = "done"
  /\ tiles = tiles_at_start
  /\ \E k \in NamedTiles(KA_NAME, "KA") : tiles[k].instructions = "notebook instructions"
  /\ \E k \in NamedTiles(MAS_NAME, "MAS") :
       /\ tiles[k].instructions = "notebook instructions"
       /\ Len(tiles[k].examples) = Len(MAS_EXAMPLES)
  /\ \A k \in 1..Len(calls) : calls[k].method = "GET"

\* C15: when no listed Genie space has the display name GENIE_SPACE_NAME, the
\* run fails at the lookup: once the listing has been received the run has
\* ended with a ValueError, the lookup is made at most once, the run never
\* completes, and it makes no Multi-Agent Supervisor search, details read,
\* create or example request.
GenieSpaceListed == \E k \in 1..Len(spaces) : spaces[k].display_name = GENIE_SPACE_NAME

C15_MissingGenieSpaceIsFatal ==
  ~GenieSpaceListed =>
    /\ Len(CallsTo({"data-rooms"})) <= 1
    /\ CallsTo({"tiles MAS", "multi-agent-supervisors/id",
                "multi-agent-supervisors", "examples"}) = <<>>
    /\ bricks_pc \notin {"find_mas", "get_mas", "create_mas", "examples", "summary", "done"}
    /\ env.mas_tile_id = None
    /\ \A k \in 1..Len(calls) :
         calls[k].api = "data-rooms" /\ calls[k].resp = "ok" =>
           /\ k = Len(calls)
           /\ bricks_pc = "failed"
           /\ env.error = Some("ValueError")

\* the lookup was answered with a listing that holds only a space of a
\* similar name, after the run had created the Knowledge Assistant
C15_Witness ==
  /\ ~GenieSpaceListed
  /\ spaces # <<>>
  /\ bricks_pc = "failed"
  /\ env.error = Some("ValueError")
  /\ calls[Len(calls)] = [method |-> "GET", api |-> "data-rooms", resp |-> "ok"]
  /\ \E k \in 1..Len(calls) : calls[k].api = "knowledge-assistants" /\ calls[k].resp = "ok"

C18_OverwriteOnRerun ==
  /\ pc = "done" =>
       /\ volume["facilities"] = runs[Len(runs)].facilities
       /\ volume["equipment_inventory"] = runs[Len(runs)].inventory
       /\ volume["work_orders"] = runs[Len(runs)].work_orders
       /\ volume["manufacturer_contracts"] = runs[Len(runs)].contracts
       /\ volume["equipment_inventory"] = inventory_rows
       /\ volume["work_orders"] = work_order_rows
       /\ volume["manufacturer_contracts"] = contracts_data
       /\ Len(runs) = run
       /\ Len(volume["facilities"]) = 8
       /\ Len(volume["equipment_inventory"]) = 120
       /\ Len(volume["work_orders"]) = 500
       /\ Len(volume["manufacturer_contracts"]) = 10
  /\ Len(volume["facilities"]) \in {0, 8}
  /\ Len(volume["equipment_inventory"]) \in {0, 120}
  /\ Len(volume["work_orders"]) \in {0, 500}
  /\ Len(volume["manufacturer_contracts"]) \in {0, 10}

\* the second run has finished
C18_Witness ==
  /\ pc = "done"
  /\ run = 2
  /\ Len(runs) = 2
  /\ Len(volume["work_orders"]) = WorkOrderCount
  /\ Len(volume["equipment_inventory"]) = InventoryCount

\* C19: the document generator and the dataset generator use the same
\* reference vocabularies: the manufacturer lists, the equipment-type
\* name/prefix pairs, the voltage lists and the IP-rating lists of the two
\* notebooks are equal, and every written document carries a manufacturer, an
\* equipment type, a voltage and an IP rating of the dataset generator's lists
\* and a model number that the dataset generator's generate_model_number
\* gives for that type's prefix and the same three draws.
C19_SharedVocabularies ==
  /\ DOC_MANUFACTURERS = MANUFACTURERS
  /\ DOC_EQUIPMENT_TYPES = EQUIPMENT_TYPES
  /\ DOC_VOLTAGES = VOLTAGES
  /\ DOC_IP_RATINGS = IP_RATINGS
  /\ \A f \in DOMAIN equipment_docs :
       LET g == equipment_docs[f].general
           n == Len(g.model_number)
       IN /\ g.manufacturer \in Rows(MANUFACTURERS)
          /\ g.voltage_rating \in Rows(VOLTAGES)
          /\ g.ip_rating \in Rows(IP_RATINGS)
          /\ \E k \in 1..Len(EQUIPMENT_TYPES), letter \in 1..Len(MODEL_LETTERS) :
               /\ EQUIPMENT_TYPES[k][1] = g.equipment_type
               /\ g.model_number
                    = generate_model_number(EQUIPMENT_TYPES[k][2],
                                            ParseInt(SubSeq(g.model_number, n - 6, n - 3)),
                                            letter,
                                            ParseInt(SubSeq(g.model_number, n, n)))

\* a batch with a document drawn from the head of every list and one drawn
\* from the tail of every list
C19_Witness ==
  /\ Len(docs) = NumDocs
  /\ \E f \in DOMAIN equipment_docs :
       /\ equipment_docs[f].general.model_number = "IMC-1000-A1"
       /\ equipment_docs[f].general.voltage_rating = "120V AC"
  /\ \E f \in DOMAIN equipment_docs :
       /\ equipment_docs[f].general.model_number = "IRM-9999-H9"
       /\ equipment_docs[f].general.manufacturer = "Yokogawa Electric"
       /\ equipment_docs[f].general.ip_rating = "IP67"
       /\ equipment_docs[f].general.voltage_rating = "600V AC"

\* The j-th document of the batch as it was generated: its metadata in docs
\* and its bytes in the volume.
WrittenDocument(j) ==
  [f \in DOMAIN twin.docs[j] |->
     IF f = "pdf_bytes" THEN equipment_docs[docs[j].filename] ELSE docs[j][f]]

\* C20 as stated: whatever draw of document 1 is changed, the number of its
\* GD&T, material or test rows included, document 2 has the same values in
\* both batches.
C20_SecondDocumentUnchanged ==
  (Len(docs) >= 2 /\ Len(twin.docs) >= 2) => WrittenDocument(2) = twin.docs[2]

\* C20: a changed draw of document 1 leaves the values of document 2 as they
\* were whenever document 1 still reads the same number of generator outputs:
\* document 2 depends on document 1 through nothing but the place in the
\* generator's output where document 1 stopped.
C20_SecondDocumentUnchangedAtSamePlace ==
  (Len(docs) >= 2 /\ Len(twin.docs) >= 2 /\ doc_rng.read[1] = twin.read[1])
    => WrittenDocument(2) = twin.docs[2]

\* two finished batches whose first documents differ and read the same number
\* of outputs, and whose second documents are equal
C20_Witness ==
  /\ Len(docs) = 2
  /\ Len(twin.docs) = 2
  /\ doc_rng.read[1] = twin.read[1]
  /\ twin.docs[1] # WrittenDocument(1)
  /\ twin.docs[2] = WrittenDocument(2)

\* C21: every generated document has certification_status PASS or
\* CONDITIONAL and its summary takes the narrative branch of that status, so
\* no document is without a narrative paragraph.
C21_NarrativeBranchTaken ==
  \A f \in DOMAIN equipment_docs :
    LET document == equipment_docs[f]
    IN /\ document.general.certification_status \in {"PASS", "CONDITIONAL"}
       /\ document.summary.overall_status = document.general.certification_status
       /\ document.summary.narrative # None
       /\ (document.summary.narrative = Some("certified"))
            <=> (document.general.certification_status = "PASS")

\* the volume holds a PASS document and a CONDITIONAL document, each with
\* its narrative paragraph
C21_Witness ==
  /\ \E f \in DOMAIN equipment_docs :
       /\ equipment_docs[f].general.certification_status = "PASS"
       /\ equipment_docs[f].summary.narrative = Some("certified")
  /\ \E f \in DOMAIN equipment_docs :
       /\ equipment_docs[f].general.certification_status = "CONDITIONAL"
       /\ equipment_docs[f].summary.narrative # None
       /\ equipment_docs[f].summary.narrative # Some("certified")

\* The documents generated so far off the generator: the files of the batch
\* and the documents of its twin.
StreamDocuments ==
  { equipment_docs[f] : f \in DOMAIN equipment_docs }
    \cup { twin.docs[j].pdf_bytes : j \in DOMAIN twin.docs }

\* C22: every generated document has 7 to 12 test rows, their names pairwise
\* distinct entries of the 14-entry catalog and their results PASS or FAIL;
\* total_tests is therefore never 0 when the pass rate is computed.
C22_TestRowsDistinctAndCounted ==
  /\ Len(TEST_NAMES) = 14
  /\ \A document \in StreamDocuments :
       LET rows == TestRowsOf(document)
       IN /\ Len(rows) \in 7..12
          /\ \A k \in DOMAIN rows :
               /\ \E n \in DOMAIN TEST_NAMES : rows[k][1] = TEST_NAMES[n]
               /\ rows[k][4] \in {"PASS", "FAIL"}
          /\ \A j, k \in DOMAIN rows : j # k => rows[j][1] # rows[k][1]
          /\ document.summary.total_tests = Len(rows)
          /\ document.summary.total_tests # 0

\* a document with 7 test rows and a document with 12 test rows, one of them
\* with a FAIL row
C22_Witness ==
  /\ \E document \in StreamDocuments : Len(TestRowsOf(document)) = 7
  /\ \E document \in StreamDocuments : Len(TestRowsOf(document)) = 12
  /\ \E document \in StreamDocuments :
       CountResult(TestRowsOf(document), "FAIL") > 0

\* the inventory rows generated and written so far
InventoryRowsSoFar == Rows(inventory_rows) \cup Rows(volume["equipment_inventory"])

\* C23: for every inventory asset, last_inspection_date is at least 30 days
\* after purchase_date and not later than 2026-02-17, and
\* next_inspection_due is 90, 180 or 365 days after last_inspection_date.
C23_InspectionDates ==
  \A r \in InventoryRowsSoFar :
    LET purchase_date == ToDate(r.purchase_date)
        last_inspection == ToDate(r.last_inspection_date)
        next_inspection == ToDate(r.next_inspection_due)
    IN /\ last_inspection >= purchase_date + 30
       /\ last_inspection <= Date(2026, 2, 17)
       /\ next_inspection - last_inspection \in {90, 180, 365}

\* an asset purchased on the last possible day and inspected on 2026-02-17,
\* next to an asset inspected 30 days after its purchase
C23_Witness ==
  /\ \E r \in Rows(inventory_rows) :
       /\ r.purchase_date = IsoDate(Date(2018, 1, 1) + 2800)
       /\ r.last_inspection_date = "2026-02-17"
  /\ \E r \in Rows(inventory_rows) :
       /\ r.last_inspection_date = IsoDate(ToDate(r.purchase_date) + 30)
       /\ r.next_inspection_due = IsoDate(ToDate(r.last_inspection_date) + 365)

\* C29: the last-inspection draw never has an empty range and no equipment
\* type falls back to the default price range: for every purchase date
\* 2018-01-01 + 0..2800 days the upper bound min(2800, days to 2026-02-17)
\* is at least the lower bound 30, and every prefix of EQUIPMENT_TYPES has
\* its own entry in base_prices, whose range holds the asset's price.  (The
\* bound of every purchase date does not depend on the state: it is
\* evaluated where the loop has no row yet, and again for every row.)
C29_DrawRangesNonEmpty ==
  /\ inventory_rows = <<>> =>
       \A off \in 0..2800 : LastInspectionMax(Date(2018, 1, 1) + off) >= 30
  /\ \A e \in 1..Len(EQUIPMENT_TYPES) : EQUIPMENT_TYPES[e][2] \in DOMAIN base_prices
  /\ \A r \in InventoryRowsSoFar :
       /\ LastInspectionMax(ToDate(r.purchase_date)) >= InspectionMinOffset
       /\ r.equipment_type_code \in DOMAIN base_prices
       /\ r.purchase_price_usd >= base_prices[r.equipment_type_code][1] * 100
       /\ r.purchase_price_usd <= base_prices[r.equipment_type_code][2] * 100

\* an asset purchased on the last possible day, whose draw range is 30..169,
\* next to an asset of the last equipment type at the top of its own range
C29_Witness ==
  /\ \E r \in Rows(inventory_rows) :
       /\ r.purchase_date = IsoDate(Date(2018, 1, 1) + 2800)
       /\ LastInspectionMax(ToDate(r.purchase_date)) = 169
       /\ r.last_inspection_date = IsoDate(ToDate(r.purchase_date) + 30)
  /\ \E r \in Rows(inventory_rows) :
       /\ r.equipment_type_code = EQUIPMENT_TYPES[Len(EQUIPMENT_TYPES)][2]
       /\ r.purchase_price_usd = base_prices[r.equipment_type_code][2] * 100

\* C24: for every work order scheduled_date is between the date of
\* created_at and 14 days after it, and for every Completed work order
\* completed_date is between scheduled_date and 3 days after it; so
\* created date <= scheduled_date <= completed_date.
C24_WorkOrderDatesOrdered ==
  \A w \in Rows(work_order_rows) \cup Rows(volume["work_orders"]) :
    LET created_date == ToDate(SubSeq(w.created_at, 1, 10))
        scheduled == ToDate(w.scheduled_date)
    IN /\ scheduled - created_date \in 0..14
       /\ w.status = "Completed" =>
            /\ w.completed_date # None
            /\ ToDate(w.completed_date[1]) - scheduled \in 0..3
            /\ created_date <= scheduled
            /\ scheduled <= ToDate(w.completed_date[1])

\* a Completed order created at 18:59 of the last possible day, scheduled 14
\* days later and completed 3 days after that, next to a Completed order
\* scheduled and completed on the day it was created
C24_Witness ==
  /\ \E w \in Rows(work_order_rows) :
       /\ w.status = "Completed"
       /\ SubSeq(w.created_at, 1, 10) = IsoDate(Date(2024, 1, 1) + 775)
       /\ ToDate(w.scheduled_date) = Date(2024, 1, 1) + 775 + 14
       /\ w.completed_date = Some(IsoDate(Date(2024, 1, 1) + 775 + 17))
  /\ \E w \in Rows(work_order_rows) :
       /\ w.status = "Completed"
       /\ w.scheduled_date = SubSeq(w.created_at, 1, 10)
       /\ w.completed_date = Some(w.scheduled_date)

\* the supervisor tiles created since the current run started
SupervisorsOfRun ==
  { t \in Rows(tiles) : t.tile_type = "MAS" /\ t \notin Rows(tiles_at_start) }

\* ref is "ka-{segment}-endpoint" for the part of tile_id before its first "-"
IsEndpointOf(ref, tile_id) ==
  \E n \in 1..Len(tile_id) :
    /\ SubSeq(tile_id, n, n) = "-"
    /\ \A j \in 1..(n - 1) : SubSeq(tile_id, j, j) # "-"
    /\ ref = "ka-" \o SubSeq(tile_id, 1, n - 1) \o "-endpoint"

\* C25: a supervisor create request is made only after, in the same run, the
\* Knowledge Assistant was found or created and the Genie Space was found;
\* the created supervisor has exactly two agents, the first referring to the
\* endpoint "ka-{first segment of the assistant's tile id}-endpoint" and the
\* second to the id of the Genie Space found in that run.
C25_SupervisorAfterItsAgents ==
  /\ \A k \in 1..Len(calls) :
       calls[k].api = "multi-agent-supervisors" =>
         /\ \E i \in 1..(k - 1) :
              /\ calls[i].api \in {"knowledge-assistants/id", "knowledge-assistants"}
              /\ calls[i].resp = "ok"
         /\ \E i \in 1..(k - 1) : calls[i].api = "data-rooms" /\ calls[i].resp = "ok"
         /\ env.ka_tile_id # None
         /\ env.genie_space_id # None
  /\ \A t \in SupervisorsOfRun :
       /\ t.name = MAS_NAME
       /\ Len(t.agents) = 2
       /\ t.agents[1].agent_type = "ka"
       /\ \E ka \in Rows(tiles) :
            /\ ka.name = KA_NAME /\ ka.tile_type = "KA"
            /\ env.ka_tile_id = Some(ka.tile_id)
            /\ IsEndpointOf(t.agents[1].ref, ka.tile_id)
       /\ t.agents[2].agent_type = "genie"
       /\ \E s \in Rows(spaces) :
            /\ s.display_name = GENIE_SPACE_NAME
            /\ env.genie_space_id = Some(s.space_id)
            /\ t.agents[2].ref = s.space_id

\* a run that created the assistant and then the supervisor, on a platform
\* that also lists a Genie Space whose name only contains the name
C25_Witness ==
  /\ bricks_pc = "done"
  /\ Len(spaces) = 2
  /\ \E k \in 1..Len(calls) :
       calls[k] = [method |-> "POST", api |-> "knowledge-assistants", resp |-> "ok"]
  /\ \E t \in SupervisorsOfRun : t.agents[2].ref = "sp-01"

\* The platform's listings with every entry listed a second time under
\* another id, after the listing itself: a listing with several resources of
\* one name.
TilesTwice == tiles \o [k \in 1..Len(tiles) |-> [tiles[k] EXCEPT !.tile_id = "copy-" \o @]]

SpacesTwice == spaces \o [k \in 1..Len(spaces) |-> [spaces[k] EXCEPT !.space_id = "copy-" \o @]]

\* result is the first entry of the listing with that name (of that type, for
\* a tile), and None when the listing has no such entry
FirstOfName(result, listing, name, tile_type) ==
  LET IsNamed(r) == IF tile_type = "" THEN r.display_name = name
                    ELSE r.name = name /\ r.tile_type = tile_type
  IN /\ (result = None) <=> (\A k \in 1..Len(listing) : ~IsNamed(listing[k]))
     /\ result # None =>
          \E k \in 1..Len(listing) :
            /\ IsNamed(listing[k])
            /\ \A j \in 1..(k - 1) : ~IsNamed(listing[j])
            /\ result = Some(listing[k])

\* C26: find_ka_by_name, find_mas_by_name and find_genie_space_by_name return
\* the first listed resource whose name (display_name for a Genie Space)
\* equals the requested name, and None when no listed name equals it, also
\* when listed names contain it; the notebook goes on accordingly.
C26_LookupsMatchExactName ==
  /\ FirstOfName(find_tile_by_name(tiles, KA_NAME, "KA"), tiles, KA_NAME, "KA")
  /\ FirstOfName(find_tile_by_name(tiles, MAS_NAME, "MAS"), tiles, MAS_NAME, "MAS")
  /\ FirstOfName(find_genie_space_by_name(spaces, GENIE_SPACE_NAME),
                 spaces, GENIE_SPACE_NAME, "")
  /\ FirstOfName(find_tile_by_name(TilesTwice, KA_NAME, "KA"), TilesTwice, KA_NAME, "KA")
  /\ FirstOfName(find_tile_by_name(TilesTwice, MAS_NAME, "MAS"), TilesTwice, MAS_NAME, "MAS")
  /\ FirstOfName(find_genie_space_by_name(SpacesTwice, GENIE_SPACE_NAME),
                 SpacesTwice, GENIE_SPACE_NAME, "")
  /\ bricks_pc = "create_ka" => NamedTiles(KA_NAME, "KA") = {}
  /\ bricks_pc = "create_mas" => NamedTiles(MAS_NAME, "MAS") = {}
  /\ bricks_pc = "get_ka" =>
       \E k \in NamedTiles(KA_NAME, "KA") : env.ka_tile_id = Some(tiles[k].tile_id)
  /\ bricks_pc = "get_mas" =>
       \E k \in NamedTiles(MAS_NAME, "MAS") : env.mas_tile_id = Some(tiles[k].tile_id)

\* the supervisor search found the supervisor listed after a supervisor whose
\* name contains the name, after the Genie search found the space listed
\* after a space whose name contains the name, in a run whose assistant
\* search returned None on a listing with an assistant of a longer name
C26_Witness ==
  /\ bricks_pc = "get_mas"
  /\ \E k \in 1..Len(calls) : calls[k].api = "knowledge-assistants"
  /\ tiles[1].name = KA_NAME \o "_v2"
  /\ tiles[2].name = "Old_" \o MAS_NAME
  /\ env.mas_tile_id = Some("9b2c-05")
  /\ spaces[1].display_name # GENIE_SPACE_NAME
  /\ env.genie_space_id = Some("sp-01")

\* C27: in every generated document the status agrees with the test table: a
\* PASS document has no test row with result FAIL, and a CONDITIONAL
\* document has at least one.
C27_StatusAgreesWithTests ==
  \A f \in DOMAIN equipment_docs :
    LET document == equipment_docs[f]
        failed_rows == CountResult(TestRowsOf(document), "FAIL")
    IN /\ document.general.certification_status = "PASS" => failed_rows = 0
       /\ document.general.certification_status = "CONDITIONAL" => failed_rows > 0

\* the batch loop has finished: every document was generated and written
BatchComplete == doc_error = None /\ Len(docs) = NumDocs

\* C28 as stated: no two documents of a batch are written to the same path,
\* so after the loop the volume holds NUM_DOCS files of this run.
C28_DistinctPaths ==
  BatchComplete =>
    /\ \A j, k \in DOMAIN docs : j # k => docs[j].filename # docs[k].filename
    /\ Cardinality(DOMAIN equipment_docs) = NumDocs

\* C28: two documents of a batch are written to the same path exactly when
\* they drew the same certification_id and the same model_number; after the
\* loop the volume holds one file for each distinct filename of the batch, at
\* most NUM_DOCS, and the file of a path has the values of the last document
\* written to it.
C28_SamePathOnlyForSameIds ==
  /\ \A j, k \in DOMAIN docs :
       (docs[j].filename = docs[k].filename)
         <=> /\ docs[j].certification_id = docs[k].certification_id
             /\ docs[j].model_number = docs[k].model_number
  /\ BatchComplete =>
       /\ DOMAIN equipment_docs = { docs[k].filename : k \in DOMAIN docs }
       /\ Cardinality(DOMAIN equipment_docs) <= NumDocs
       /\ \A f \in DOMAIN equipment_docs :
            LET last == CHOOSE k \in DOMAIN docs :
                          /\ docs[k].filename = f
                          /\ \A j \in DOMAIN docs : docs[j].filename = f => j <= k
            IN /\ equipment_docs[f].general.certification_id = docs[last].certification_id
               /\ equipment_docs[f].general.model_number = docs[last].model_number
               /\ equipment_docs[f].general.certification_status
                    = docs[last].certification_status

\* a finished batch whose two documents drew the same certification_id and
\* model_number and another status: one file, with the status of the second
C28_Witness ==
  /\ BatchComplete
  /\ docs[1].filename = docs[2].filename
  /\ docs[1].certification_status # docs[2].certification_status
  /\ Cardinality(DOMAIN equipment_docs) = 1
  /\ equipment_docs[docs[2].filename].general.certification_status
       = docs[2].certification_status

\* the example requests of the current run, in order
ExampleCalls == CallsTo({"examples"})

\* the k-th example request was answered without an exception
ExampleAdded(k) == ExampleCalls[k].resp = "ok"

\* C30: add_mas_examples makes a request for every example in list order
\* whatever happened to the earlier ones, returns normally, and returns the
\* responses of the successful requests in order; it is called only in a run
\* that created the supervisor.
C30_EveryExampleAttempted ==
  /\ ExampleCalls # <<>> =>
       /\ \E k \in 1..Len(calls) :
            /\ calls[k] = [method |-> "POST", api |-> "multi-agent-supervisors",
                           resp |-> "ok"]
            /\ \A j \in 1..Len(calls) : calls[j].api = "examples" => k < j
       /\ CallsTo({"multi-agent-supervisors/id"}) = <<>>
       /\ env.error = None
       /\ bricks_pc \in {"examples", "summary", "done"}
  /\ Len(ExampleCalls) <= Len(MAS_EXAMPLES)
  /\ bricks_pc = "examples" => Len(ExampleCalls) < Len(MAS_EXAMPLES)
  /\ (bricks_pc \in {"summary", "done"} /\ CallsTo({"multi-agent-supervisors"}) # <<>>)
       => Len(ExampleCalls) = Len(MAS_EXAMPLES)
  /\ LET added == { k \in 1..Len(ExampleCalls) : ExampleAdded(k) }
     IN /\ Len(env.created) = Cardinality(added)
        /\ \A i \in 1..Len(env.created) :
             env.created[i]
               = MAS_EXAMPLES[CHOOSE k \in added :
                                Cardinality({ j \in added : j <= k }) = i]

\* a run that completed after five example requests of which the first and
\* the third failed: the returned list holds the second, fourth and fifth
C30_Witness ==
  /\ bricks_pc = "done"
  /\ Len(ExampleCalls) = 5
  /\ ExampleCalls[1].resp = "error"
  /\ ExampleCalls[3].resp = "timeout"
  /\ env.created = << MAS_EXAMPLES[2], MAS_EXAMPLES[4], MAS_EXAMPLES[5] >>

====
